---- MODULE Spec2Model ----
(***************************************************************************)
(* Model of the types of gomcp/pkg/types:                                  *)
(*   - Content       (content.go)  : text / image / resource payloads      *)
(*   - ErrorInfo     (errors.go)   : JSON-RPC error with structured data   *)
(*   - the constructors with options and the validators of the envelopes   *)
(*                                                                         *)
(* Conventions.                                                            *)
(*   - A Go pointer is a sequence of length 0 (nil) or 1 (points to p[1]). *)
(*   - A Go slice is its sequence of elements; the empty sequence stands   *)
(*     for the nil slice (the code only ever looks at len()).              *)
(*   - A float64 is a fraction n/d, or NaN; a priority is a fraction of    *)
(*     tenths, and the JSON number of a priority is written in tenths (8   *)
(*     is 0.8).                                                            *)
(*   - The wire is a parsed JSON text: a record tagged by k, objects are   *)
(*     ordered sequences of (key, val) members, BadJSON is a byte buffer   *)
(*     that is not JSON at all.  encoding/json is modelled by what it      *)
(*     does to such a text: omitempty, null, unknown keys, kind mismatch.  *)
(*   - An error is a string; "" is the nil error.                          *)
(***************************************************************************)
EXTENDS Integers, Sequences, FiniteSets, TLC

VARIABLES
  c,      \* the Content value at hand: built, encoded, or decoded into
  cOp,    \* the last operation on c
  cIn,    \* summary of the last decoded wire: JSON kind, "type", keys present
  cSrc,   \* points to the Content whose encoding the last decoded wire is
  cFresh, \* the last decode was into a zero Content
  cN,     \* decodes into c since it first held a value
  cErr,   \* the error the last operation returned
  cOut,   \* the bytes the last MarshalJSON returned
  e,      \* the ErrorInfo value at hand
  eOp,    \* the last operation on e
  eIn,    \* the last decoded wire
  eFresh, \* the last decode was into a zero ErrorInfo
  eN,     \* decodes into e since it first held a value
  eSrc,   \* points to the ErrorInfo whose encoding the last decoded wire is
  eErr,   \* the error the last operation returned
  eOut,   \* the bytes the last MarshalJSON returned
  bVal,   \* what the constructor called returned: nil or a pointer
  bOp,    \* the constructor or validator called
  bIn,    \* the arguments and options it was called with
  bErr,   \* the error it returned
  bRan,   \* the number of options the constructor called
  vIn,    \* the value a validator is called on
  vOp,    \* the validator called
  vErrs,  \* the errors its calls on that value returned, in order
  hHeap,  \* the objects the caller shares: its Annotations, or its array
  hVal,   \* what the constructor returned, holding addresses of hHeap
  hOp,    \* the constructor called on what the caller shares
  hBuilt, \* what the caller passed, as it was when the constructor returned
  StringSchema,  \* the package variable StringSchema
  NumberSchema,  \* the package variable NumberSchema
  IntegerSchema, \* the package variable IntegerSchema
  BooleanSchema, \* the package variable BooleanSchema
  sNode,  \* the schema the last constructor call returned, nil before any
  sOp,    \* the schema constructor called last
  sIn,    \* the arguments it was called with
  sCalls  \* the schema constructor calls made

cvars == <<c, cOp, cIn, cSrc, cFresh, cN, cErr, cOut>>

evars == <<e, eOp, eIn, eFresh, eN, eSrc, eErr, eOut>>

bvars == <<bVal, bOp, bIn, bErr, bRan>>

vvars == <<vIn, vOp, vErrs>>

hvars == <<hHeap, hVal, hOp, hBuilt>>

svars ==
  <<StringSchema, NumberSchema, IntegerSchema, BooleanSchema,
    sNode, sOp, sIn, sCalls>>

vars == <<cvars, evars, bvars, vvars, hvars, svars>>

(***************************************************************************)
(* Pointers                                                                *)
(***************************************************************************)
Nil == <<>>

Ptr(x) == <<x>>

Opt(S) == {Nil} \cup {Ptr(x) : x \in S}

(***************************************************************************)
(* float64.  A value is an exact fraction n/d with d > 0, or NaN; the      *)
(* numbers met here are small integers, tenths and percentages of small    *)
(* counts, far from the rounding of the machine type.  The infinities,     *)
(* which the comparisons order like numbers, are left out.                 *)
(***************************************************************************)
Rat(n, d) == [n |-> n, d |-> d]

\* float64(i)
Float(i) == Rat(i, 1)

\* a number of tenths: 8 is 0.8
Tenths(t) == Rat(t, 10)

\* math.NaN(): the float64 that is no number
NaN == Rat(0, 0)

IsNaN(x) == x.d = 0

\* x < y: false when either is NaN
RatLess(x, y) == ~IsNaN(x) /\ ~IsNaN(y) /\ x.n * y.d < y.n * x.d

\* x <= y: false when either is NaN
RatLessEq(x, y) == ~IsNaN(x) /\ ~IsNaN(y) /\ x.n * y.d <= y.n * x.d

\* x == y: false when either is NaN
RatEq(x, y) == ~IsNaN(x) /\ ~IsNaN(y) /\ x.n * y.d = y.n * x.d

\* the tenths that the JSON number of x is written in
InTenths(x) == (x.n * 10) \div x.d

(***************************************************************************)
(* JSON texts                                                              *)
(***************************************************************************)
JStr(s) == [k |-> "str", s |-> s]

JNum(n) == [k |-> "num", n |-> n]

JNull == [k |-> "null"]

JArr(a) == [k |-> "arr", a |-> a]

JObj(o) == [k |-> "obj", o |-> o]

BadJSON == [k |-> "bad"]

JMissing == [k |-> "missing"]

\* the names that the json tags of the package give the struct fields,
\* letter by letter: a member key is the sequence of its characters
Name ==
  [type |-> <<"t", "y", "p", "e">>,
   text |-> <<"t", "e", "x", "t">>,
   data |-> <<"d", "a", "t", "a">>,
   mimeType |-> <<"m", "i", "m", "e", "T", "y", "p", "e">>,
   uri |-> <<"u", "r", "i">>,
   blob |-> <<"b", "l", "o", "b">>,
   annotations |-> <<"a", "n", "n", "o", "t", "a", "t", "i", "o", "n", "s">>,
   audience |-> <<"a", "u", "d", "i", "e", "n", "c", "e">>,
   priority |-> <<"p", "r", "i", "o", "r", "i", "t", "y">>,
   code |-> <<"c", "o", "d", "e">>,
   message |-> <<"m", "e", "s", "s", "a", "g", "e">>,
   errorType |-> <<"e", "r", "r", "o", "r", "T", "y", "p", "e">>,
   validation |-> <<"v", "a", "l", "i", "d", "a", "t", "i", "o", "n">>,
   field |-> <<"f", "i", "e", "l", "d">>,
   error |-> <<"e", "r", "r", "o", "r">>,
   toolName |-> <<"t", "o", "o", "l", "N", "a", "m", "e">>,
   details |-> <<"d", "e", "t", "a", "i", "l", "s">>]

\* the upper-case letter of each lower-case ASCII letter
UpperOf ==
  [a |-> "A", b |-> "B", c |-> "C", d |-> "D", e |-> "E", f |-> "F",
   g |-> "G", h |-> "H", i |-> "I", j |-> "J", k |-> "K", l |-> "L",
   m |-> "M", n |-> "N", o |-> "O", p |-> "P", q |-> "Q", r |-> "R",
   s |-> "S", t |-> "T", u |-> "U", v |-> "V", w |-> "W", x |-> "X",
   y |-> "Y", z |-> "Z"]

\* the two characters outside ASCII that fold to an ASCII letter, written
\* by their code points: the long s and the Kelvin sign
LongS == "U+017F"

KelvinSign == "U+212A"

\* the character that encoding/json folds character ch to: the upper-case
\* letter of an ASCII letter, S and K for the long s and the Kelvin sign,
\* the character itself otherwise
FoldRune(ch) ==
  IF ch \in DOMAIN UpperOf THEN UpperOf[ch]
  ELSE IF ch = LongS THEN "S"
  ELSE IF ch = KelvinSign THEN "K"
  ELSE ch

\* the folded name of a member key: two keys differ in case only when
\* their folded names are equal
FoldName(key) == [i \in DOMAIN key |-> FoldRune(key[i])]

\* encoding/json addresses a member to the struct field whose name its
\* key spells, exactly or, failing that, in any mix of cases
Addressed(key, tag) ==
  \/ key = Name[tag]
  \/ FoldName(key) = FoldName(Name[tag])

\* a member written under the name of the field tagged key
Member(key, val) == [key |-> Name[key], val |-> val]

\* a member written under the key spelt by the characters chars
Spelt(chars, val) == [key |-> chars, val |-> val]

\* sequence of the members of ms whose value is present (omitempty drops
\* a member by giving it the value JMissing)
RECURSIVE DropMissing(_)
DropMissing(ms) ==
  IF ms = <<>> THEN <<>>
  ELSE IF Head(ms).val = JMissing THEN DropMissing(Tail(ms))
       ELSE <<Head(ms)>> \o DropMissing(Tail(ms))

\* the values of the members ms addressed to the field named tag, in the
\* order they are written
RECURSIVE ValuesFor(_, _)
ValuesFor(ms, tag) ==
  IF ms = <<>> THEN <<>>
  ELSE (IF Addressed(Head(ms).key, tag) THEN <<Head(ms).val>> ELSE <<>>)
       \o ValuesFor(Tail(ms), tag)

\* the values that decoding JSON text j stores, one after the other, in
\* the struct field named tag
MembersOf(j, tag) == IF j.k = "obj" THEN ValuesFor(j.o, tag) ELSE <<>>

\* the member of JSON text j that a json.RawMessage field named key holds:
\* the last one written for it; JMissing when there is none
Field(j, key) ==
  IF MembersOf(j, key) = <<>> THEN JMissing
  ELSE MembersOf(j, key)[Len(MembersOf(j, key))]

\* the folded names of the keys of the members ms
KeysOf(ms) == {FoldName(ms[i].key) : i \in 1..Len(ms)}

\* the fields, by their tags, that members of JSON text j are written for
FieldsOf(j) == {tag \in DOMAIN Name : MembersOf(j, tag) # <<>>}

\* no two members of JSON text j are addressed to the same field
UniqueKeys(j) ==
  j.k = "obj" => Cardinality(KeysOf(j.o)) = Len(j.o)

\* a value written for a field, or nothing
One(j) == IF j = JMissing THEN <<>> ELSE <<j>>

ErrSyntax == "json: invalid character"

ErrKind == "json: cannot unmarshal"

\* json.Unmarshal(data, &struct): error for the text as a whole
StructErr(j) ==
  IF j.k = "bad" THEN ErrSyntax
  ELSE IF j.k \in {"obj", "null"} THEN ""
  ELSE ErrKind

\* values of the wrong JSON kind among those written for a field: the
\* decoder keeps the first such error and goes on
KindErr(vs, kinds) ==
  IF \E i \in 1..Len(vs) : vs[i].k \notin kinds THEN ErrKind ELSE ""

\* a string field holding cur: a string is stored, null and values of
\* another kind leave the field as it is
RECURSIVE StringOf(_, _)
StringOf(cur, vs) ==
  IF vs = <<>> THEN cur
  ELSE StringOf(IF Head(vs).k = "str" THEN Head(vs).s ELSE cur, Tail(vs))

StringErr(j) == KindErr(One(j), {"null", "str"})

StringVal(j) == StringOf("", One(j))

StringFieldErr(j, tag) == KindErr(MembersOf(j, tag), {"null", "str"})

StringField(j, tag) == StringOf("", MembersOf(j, tag))

\* a *string field holding cur: null stores nil; a value of another kind
\* finds the pointer allocated and leaves what it points to
RECURSIVE StringPtrOf(_, _)
StringPtrOf(cur, vs) ==
  IF vs = <<>> THEN cur
  ELSE StringPtrOf(CASE Head(vs).k = "str" -> Ptr(Head(vs).s)
                     [] Head(vs).k = "null" -> Nil
                     [] OTHER -> IF cur = Nil THEN Ptr("") ELSE cur,
                   Tail(vs))

StringPtrVal(j) == StringPtrOf(Nil, One(j))

StringPtrField(j, tag) == StringPtrOf(Nil, MembersOf(j, tag))

EncStringPtr(p) == IF p = Nil THEN JMissing ELSE JStr(p[1])

\* a slice while it is decoded into: the elements of its backing array
\* that were written, its length, and whether it is non-nil
ZeroSlice == [arr |-> <<>>, len |-> 0, made |-> FALSE]

EmptySlice == [arr |-> <<>>, len |-> 0, made |-> TRUE]

Longer(m, n) == IF m < n THEN n ELSE m

\* the elements of the slice s
Elements(s) == SubSeq(s.arr, 1, s.len)

(***************************************************************************)
(* content.go : Annotations                                                *)
(***************************************************************************)
RoleUser == "user"

RoleAssistant == "assistant"

RECURSIVE EncRoles(_)
EncRoles(rs) ==
  IF rs = <<>> THEN <<>> ELSE <<JStr(Head(rs))>> \o EncRoles(Tail(rs))

\* priority,omitempty on a float64 instead of a *float64: 0.0 is dropped
EncAnnotations_OmitZero(a) ==
  JObj(DropMissing(<<
    Member("audience", IF Len(a.Audience) = 0 THEN JMissing
                       ELSE JArr(EncRoles(a.Audience))),
    Member("priority", IF a.Priority = Nil \/ a.Priority = Ptr(Tenths(0))
                       THEN JMissing
                       ELSE JNum(InTenths(a.Priority[1]))) >>))

\* json.Marshal(*Annotations) through the tags audience,omitempty and
\* priority,omitempty
EncAnnotations(a) ==
  JObj(DropMissing(<<
    Member("audience", IF Len(a.Audience) = 0 THEN JMissing
                       ELSE JArr(EncRoles(a.Audience))),
    Member("priority", IF a.Priority = Nil THEN JMissing
                       ELSE JNum(InTenths(a.Priority[1]))) >>))

EncAnnotationsPtr(p) == IF p = Nil THEN JMissing ELSE EncAnnotations(p[1])

\* json.Marshal refuses a float64 that is NaN (UnsupportedValueError)
Unsupported(p) ==
  p # Nil /\ p[1].Priority # Nil /\ IsNaN(p[1].Priority[1])

ErrUnsupported == "json: unsupported value"

\* a Role element holding cur
RoleOf(cur, j) == StringOf(cur, <<j>>)

\* a []Role field: null stores nil, an empty array a new empty slice; an
\* array is decoded element by element into the elements the backing array
\* holds, and the length is set to the array's
RolesInto(s, j) ==
  CASE j.k = "null" -> ZeroSlice
    [] j.k = "arr" /\ j.a = <<>> -> EmptySlice
    [] j.k = "arr" /\ j.a # <<>> ->
         [arr |-> [i \in 1..Longer(Len(s.arr), Len(j.a)) |->
                     IF i > Len(j.a) THEN s.arr[i]
                     ELSE RoleOf(IF i <= Len(s.arr) THEN s.arr[i] ELSE "",
                                 j.a[i])],
          len |-> Len(j.a), made |-> TRUE]
    [] OTHER -> s

RECURSIVE RolesOf(_, _)
RolesOf(s, vs) ==
  IF vs = <<>> THEN s ELSE RolesOf(RolesInto(s, Head(vs)), Tail(vs))

RolesErr(j) ==
  IF j.k \in {"missing", "null"} THEN ""
  ELSE IF j.k # "arr" THEN ErrKind
  ELSE IF \E i \in 1..Len(j.a) : j.a[i].k \notin {"str", "null"} THEN ErrKind
  ELSE ""

RolesVal(j) == Elements(RolesOf(ZeroSlice, One(j)))

\* a *float64 field holding cur
RECURSIVE PriorityOf(_, _)
PriorityOf(cur, vs) ==
  IF vs = <<>> THEN cur
  ELSE PriorityOf(CASE Head(vs).k = "num" -> Ptr(Tenths(Head(vs).n))
                    [] Head(vs).k = "null" -> Nil
                    [] OTHER -> IF cur = Nil THEN Ptr(Tenths(0)) ELSE cur,
                  Tail(vs))

PriorityErr(j) == KindErr(One(j), {"null", "num"})

PriorityVal(j) == PriorityOf(Nil, One(j))

\* an Annotations while it is decoded into
ZeroAnnotations == [Audience |-> ZeroSlice, Priority |-> Nil]

\* a field of type *Annotations holding cur: null stores nil; an object is
\* decoded into the Annotations pointed to, allocated when the field is
\* nil; a value of another kind finds the pointer allocated
AnnotationsInto(cur, j) ==
  CASE j.k = "null" -> Nil
    [] j.k = "obj" ->
         Ptr([Audience |->
                RolesOf((IF cur = Nil THEN ZeroAnnotations ELSE cur[1]).Audience,
                        MembersOf(j, "audience")),
              Priority |->
                PriorityOf((IF cur = Nil THEN ZeroAnnotations ELSE cur[1]).Priority,
                           MembersOf(j, "priority"))])
    [] OTHER -> IF cur = Nil THEN Ptr(ZeroAnnotations) ELSE cur

RECURSIVE AnnotationsAfter(_, _)
AnnotationsAfter(cur, vs) ==
  IF vs = <<>> THEN cur
  ELSE AnnotationsAfter(AnnotationsInto(cur, Head(vs)), Tail(vs))

\* the *Annotations that decoding leaves
AnnotationsLeft(p) ==
  IF p = Nil THEN Nil
  ELSE Ptr([Audience |-> Elements(p[1].Audience), Priority |-> p[1].Priority])

\* json.Unmarshal into a field of type *Annotations: one value written
AnnotationsErr(j) ==
  IF j.k \in {"missing", "null"} THEN ""
  ELSE IF j.k # "obj" THEN ErrKind
  ELSE IF \E i \in 1..Len(MembersOf(j, "audience")) :
            RolesErr(MembersOf(j, "audience")[i]) # "" THEN ErrKind
  ELSE KindErr(MembersOf(j, "priority"), {"null", "num"})

AnnotationsVal(j) == AnnotationsLeft(AnnotationsAfter(Nil, One(j)))

\* the field annotations of the struct that JSON text j is decoded into
AnnotationsFieldErr(j) ==
  IF \E i \in 1..Len(MembersOf(j, "annotations")) :
       AnnotationsErr(MembersOf(j, "annotations")[i]) # ""
  THEN ErrKind ELSE ""

AnnotationsField(j) ==
  AnnotationsLeft(AnnotationsAfter(Nil, MembersOf(j, "annotations")))

(***************************************************************************)
(* content.go : Content and its variants; resource.go : ResourceContent    *)
(***************************************************************************)
ContentTypeText == "text"

ContentTypeImage == "image"

ContentTypeResource == "resource"

\* var content Content
ZeroContent ==
  [Type |-> "", TextContent |-> Nil, ImageContent |-> Nil,
   ResourceContent |-> Nil]

\* struct { Type; *TextContent }: the promoted fields follow the tag
EncTextContent_Nested(t) ==
  <<Member("text",
           JObj(DropMissing(<<Member("text", JStr(t.Text)),
              Member("annotations", EncAnnotationsPtr(t.Annotations))>>)))>>

EncTextContent(t) ==
  DropMissing(<<Member("text", JStr(t.Text)),
                Member("annotations", EncAnnotationsPtr(t.Annotations))>>)

EncImageContent(i) ==
  DropMissing(<<Member("data", JStr(i.Data)),
                Member("mimeType", JStr(i.MimeType)),
                Member("annotations", EncAnnotationsPtr(i.Annotations))>>)

EncResourceContent(r) ==
  DropMissing(<<Member("uri", JStr(r.URI)),
                Member("text", EncStringPtr(r.Text)),
                Member("blob", EncStringPtr(r.Blob)),
                Member("mimeType", EncStringPtr(r.MimeType)),
                Member("annotations", EncAnnotationsPtr(r.Annotations))>>)

Encoded(bytes) == [bytes |-> Ptr(bytes), err |-> ""]

Failed(err) == [bytes |-> Nil, err |-> err]

ContentMarshalJSON_NoNilCheck(v) ==
  CASE v.Type = ContentTypeText ->
         IF v.TextContent # Nil /\ Unsupported(v.TextContent[1].Annotations)
         THEN Failed(ErrUnsupported)
         ELSE Encoded(JObj(<<Member("type", JStr(ContentTypeText))>>
                \o (IF v.TextContent = Nil THEN <<>>
                    ELSE EncTextContent(v.TextContent[1]))))
    [] v.Type = ContentTypeImage ->
         IF /\ v.ImageContent # Nil
            /\ Unsupported(v.ImageContent[1].Annotations)
         THEN Failed(ErrUnsupported)
         ELSE Encoded(JObj(<<Member("type", JStr(ContentTypeImage))>>
                \o (IF v.ImageContent = Nil THEN <<>>
                    ELSE EncImageContent(v.ImageContent[1]))))
    [] v.Type = ContentTypeResource ->
         IF /\ v.ResourceContent # Nil
            /\ Unsupported(v.ResourceContent[1].Annotations)
         THEN Failed(ErrUnsupported)
         ELSE Encoded(JObj(<<Member("type", JStr(ContentTypeResource))>>
                \o (IF v.ResourceContent = Nil THEN <<>>
                    ELSE EncResourceContent(v.ResourceContent[1]))))
    [] OTHER -> Encoded(JObj(<<Member("type", JStr(v.Type))>>))

\* func (c Content) MarshalJSON() ([]byte, error)
ContentMarshalJSON(v) ==
  CASE v.Type = ContentTypeText ->
         IF v.TextContent = Nil THEN Failed("text content is nil")
         ELSE IF Unsupported(v.TextContent[1].Annotations)
         THEN Failed(ErrUnsupported)
         ELSE Encoded(JObj(<<Member("type", JStr(ContentTypeText))>>
                           \o EncTextContent(v.TextContent[1])))
    [] v.Type = ContentTypeImage ->
         IF v.ImageContent = Nil THEN Failed("image content is nil")
         ELSE IF Unsupported(v.ImageContent[1].Annotations)
         THEN Failed(ErrUnsupported)
         ELSE Encoded(JObj(<<Member("type", JStr(ContentTypeImage))>>
                           \o EncImageContent(v.ImageContent[1])))
    [] v.Type = ContentTypeResource ->
         IF v.ResourceContent = Nil THEN Failed("resource content is nil")
         ELSE IF Unsupported(v.ResourceContent[1].Annotations)
         THEN Failed(ErrUnsupported)
         ELSE Encoded(JObj(<<Member("type", JStr(ContentTypeResource))>>
                           \o EncResourceContent(v.ResourceContent[1])))
    [] OTHER -> Failed("unknown content type")

\* json.Unmarshal(data, &text) with var text TextContent
TextContentErr(j) ==
  IF StructErr(j) # "" THEN StructErr(j)
  ELSE IF StringFieldErr(j, "text") # "" THEN ErrKind
  ELSE AnnotationsFieldErr(j)

TextContentVal(j) ==
  [Text |-> StringField(j, "text"),
   Annotations |-> AnnotationsField(j)]

ImageContentErr(j) ==
  IF StructErr(j) # "" THEN StructErr(j)
  ELSE IF StringFieldErr(j, "data") # "" THEN ErrKind
  ELSE IF StringFieldErr(j, "mimeType") # "" THEN ErrKind
  ELSE AnnotationsFieldErr(j)

ImageContentVal(j) ==
  [Data |-> StringField(j, "data"),
   MimeType |-> StringField(j, "mimeType"),
   Annotations |-> AnnotationsField(j)]

ResourceContentErr(j) ==
  IF StructErr(j) # "" THEN StructErr(j)
  ELSE IF \E key \in {"uri", "text", "blob", "mimeType"} :
            StringFieldErr(j, key) # "" THEN ErrKind
  ELSE AnnotationsFieldErr(j)

ResourceContentVal(j) ==
  [URI |-> StringField(j, "uri"),
   Text |-> StringPtrField(j, "text"),
   Blob |-> StringPtrField(j, "blob"),
   MimeType |-> StringPtrField(j, "mimeType"),
   Annotations |-> AnnotationsField(j)]

\* json.Unmarshal(data, &t) with var t typeOnly
TypeOnlyErr(j) ==
  IF StructErr(j) # "" THEN StructErr(j) ELSE StringFieldErr(j, "type")

TypeOnlyVal(j) == StringField(j, "type")

Decoded(v) == [c |-> v, err |-> ""]

Rejected(v, err) == [c |-> v, err |-> err]

\* the tag is assigned before the variant body is parsed
ContentUnmarshalJSON_TagFirst(v, data) ==
  IF TypeOnlyErr(data) # "" THEN Rejected(v, TypeOnlyErr(data))
  ELSE CASE TypeOnlyVal(data) = ContentTypeText ->
              IF TextContentErr(data) # ""
              THEN Rejected([v EXCEPT !.Type = ContentTypeText],
                            TextContentErr(data))
              ELSE Decoded([v EXCEPT !.Type = ContentTypeText,
                              !.TextContent = Ptr(TextContentVal(data))])
         [] TypeOnlyVal(data) = ContentTypeImage ->
              IF ImageContentErr(data) # ""
              THEN Rejected([v EXCEPT !.Type = ContentTypeImage],
                            ImageContentErr(data))
              ELSE Decoded([v EXCEPT !.Type = ContentTypeImage,
                              !.ImageContent = Ptr(ImageContentVal(data))])
         [] TypeOnlyVal(data) = ContentTypeResource ->
              IF ResourceContentErr(data) # ""
              THEN Rejected([v EXCEPT !.Type = ContentTypeResource],
                            ResourceContentErr(data))
              ELSE Decoded([v EXCEPT !.Type = ContentTypeResource,
                              !.ResourceContent = Ptr(ResourceContentVal(data))])
         [] OTHER -> Rejected(v, "unknown content type")

\* func (c *Content) UnmarshalJSON(data []byte) error, on the target v
ContentUnmarshalJSON(v, data) ==
  IF TypeOnlyErr(data) # "" THEN Rejected(v, TypeOnlyErr(data))
  ELSE CASE TypeOnlyVal(data) = ContentTypeText ->
              IF TextContentErr(data) # ""
              THEN Rejected(v, TextContentErr(data))
              ELSE Decoded([v EXCEPT !.Type = ContentTypeText,
                              !.TextContent = Ptr(TextContentVal(data))])
         [] TypeOnlyVal(data) = ContentTypeImage ->
              IF ImageContentErr(data) # ""
              THEN Rejected(v, ImageContentErr(data))
              ELSE Decoded([v EXCEPT !.Type = ContentTypeImage,
                              !.ImageContent = Ptr(ImageContentVal(data))])
         [] TypeOnlyVal(data) = ContentTypeResource ->
              IF ResourceContentErr(data) # ""
              THEN Rejected(v, ResourceContentErr(data))
              ELSE Decoded([v EXCEPT !.Type = ContentTypeResource,
                              !.ResourceContent = Ptr(ResourceContentVal(data))])
         [] OTHER -> Rejected(v, "unknown content type")

\* func NewTextContent(text string, annotations *Annotations) *Content
NewTextContent(text, annotations) ==
  [Type |-> ContentTypeText,
   TextContent |-> Ptr([Text |-> text, Annotations |-> annotations]),
   ImageContent |-> Nil, ResourceContent |-> Nil]

\* func NewImageContent(data, mimeType string, annotations *Annotations)
NewImageContent(data, mimeType, annotations) ==
  [Type |-> ContentTypeImage,
   TextContent |-> Nil,
   ImageContent |-> Ptr([Data |-> data, MimeType |-> mimeType,
                         Annotations |-> annotations]),
   ResourceContent |-> Nil]

\* Content{Type: ContentTypeResource, ResourceContent: rc}
NewResourceLiteral(rc) ==
  [Type |-> ContentTypeResource, TextContent |-> Nil, ImageContent |-> Nil,
   ResourceContent |-> Ptr(rc)]

(***************************************************************************)
(* errors.go : ErrorInfo and its ErrorData variants                        *)
(***************************************************************************)
ErrParse == -32700

ErrInvalidRequest == -32600

ErrMethodNotFound == -32601

ErrInvalidParams == -32602

ErrInternal == -32603

\* a slice that may be nil: the nil slice, or one made of the elements
\* elems (none for an empty slice that is not nil)
NilSlice == <<>>

MakeSlice(elems) == <<elems>>

\* type ValidationError struct, as a value of the interface ErrorData; the
\* field Validation is a slice that may be nil
ValidationError(failures) ==
  [kind |-> "ValidationError", Validation |-> failures]

\* type ToolExecutionError struct, as a value of the interface ErrorData
ToolExecutionError(toolName, errType, details) ==
  [kind |-> "ToolExecutionError", ToolName |-> toolName, ErrType |-> errType,
   Details |-> details]

\* var err ErrorInfo
ZeroErrorInfo == [Code |-> 0, Message |-> "", Data |-> Nil]

EncValidationFailure(f) ==
  JObj(<<Member("field", JStr(f.Field)), Member("error", JStr(f.Error))>>)

\* json.Marshal(e.Data): a nil slice is written null, an empty one []
EncErrorData(d) ==
  IF d.kind = "ValidationError"
  THEN JObj(<<Member("validation",
                IF d.Validation = NilSlice THEN JNull
                ELSE JArr([i \in 1..Len(d.Validation[1]) |->
                             EncValidationFailure(d.Validation[1][i])]))>>)
  ELSE JObj(<<Member("toolName", JStr(d.ToolName)),
              Member("errorType", JStr(d.ErrType)),
              Member("details", JStr(d.Details))>>)

\* func (e ErrorInfo) MarshalJSON() ([]byte, error); json.Marshal of a
\* ValidationError or a ToolExecutionError, the two types that implement
\* ErrorData, returns no error
ErrorInfoMarshalJSON(v) ==
  Encoded(JObj(DropMissing(<<
    Member("code", JNum(v.Code)),
    Member("message", JStr(v.Message)),
    Member("data", IF v.Data = Nil THEN JMissing
                   ELSE EncErrorData(v.Data[1]))>>)))

\* an int field holding cur
RECURSIVE IntOf(_, _)
IntOf(cur, vs) ==
  IF vs = <<>> THEN cur
  ELSE IntOf(IF Head(vs).k = "num" THEN Head(vs).n ELSE cur, Tail(vs))

IntFieldErr(j, tag) == KindErr(MembersOf(j, tag), {"null", "num"})

IntField(j, tag) == IntOf(0, MembersOf(j, tag))

\* json.Unmarshal(data, &aux): code, message and the raw data member
AuxErr(j) ==
  IF StructErr(j) # "" THEN StructErr(j)
  ELSE IF IntFieldErr(j, "code") # "" THEN ErrKind
  ELSE StringFieldErr(j, "message")

\* json.Unmarshal(aux.Data, &temp): the errorType member of the data
TempErr(raw) ==
  IF StructErr(raw) # "" THEN StructErr(raw)
  ELSE StringFieldErr(raw, "errorType")

TempVal(raw) == StringField(raw, "errorType")

\* a ValidationFailure element holding cur: an object is decoded into it,
\* null and values of another kind leave it as it is
FailureInto(cur, j) ==
  IF j.k = "obj"
  THEN [Field |-> StringOf(cur.Field, MembersOf(j, "field")),
        Error |-> StringOf(cur.Error, MembersOf(j, "error"))]
  ELSE cur

ZeroValidationFailure == [Field |-> "", Error |-> ""]

ValidationFailureErr(j) ==
  IF j.k = "null" THEN ""
  ELSE IF j.k # "obj" THEN ErrKind
  ELSE IF StringFieldErr(j, "field") # "" THEN ErrKind
  ELSE StringFieldErr(j, "error")

ValidationFailureVal(j) == FailureInto(ZeroValidationFailure, j)

\* a []ValidationFailure field: as a []Role field, element by element
FailuresInto(s, j) ==
  CASE j.k = "null" -> ZeroSlice
    [] j.k = "arr" /\ j.a = <<>> -> EmptySlice
    [] j.k = "arr" /\ j.a # <<>> ->
         [arr |-> [i \in 1..Longer(Len(s.arr), Len(j.a)) |->
                     IF i > Len(j.a) THEN s.arr[i]
                     ELSE FailureInto(IF i <= Len(s.arr) THEN s.arr[i]
                                      ELSE ZeroValidationFailure, j.a[i])],
          len |-> Len(j.a), made |-> TRUE]
    [] OTHER -> s

RECURSIVE FailuresOf(_, _)
FailuresOf(s, vs) ==
  IF vs = <<>> THEN s ELSE FailuresOf(FailuresInto(s, Head(vs)), Tail(vs))

\* one value written for the field validation
FailuresErr(v) ==
  IF v.k = "null" THEN ""
  ELSE IF v.k # "arr" THEN ErrKind
  ELSE IF \E i \in 1..Len(v.a) : ValidationFailureErr(v.a[i]) # ""
       THEN ErrKind ELSE ""

\* the slice that decoding leaves
SliceLeft(s) == IF s.made THEN MakeSlice(Elements(s)) ELSE NilSlice

\* json.Unmarshal(aux.Data, &validationErr)
ValidationErrorErr(raw) ==
  IF StructErr(raw) # "" THEN StructErr(raw)
  ELSE IF \E i \in 1..Len(MembersOf(raw, "validation")) :
            FailuresErr(MembersOf(raw, "validation")[i]) # ""
       THEN ErrKind ELSE ""

ValidationErrorVal(raw) ==
  ValidationError(
    SliceLeft(FailuresOf(ZeroSlice, MembersOf(raw, "validation"))))

\* json.Unmarshal(aux.Data, &toolErr)
ToolExecutionErrorErr(raw) ==
  IF StructErr(raw) # "" THEN StructErr(raw)
  ELSE IF \E key \in {"toolName", "errorType", "details"} :
            StringFieldErr(raw, key) # "" THEN ErrKind
  ELSE ""

\* the field ErrType left out of the decoding: the member errorType is not
\* read
ToolExecutionErrorVal_NoTag(raw) ==
  ToolExecutionError(StringField(raw, "toolName"), "",
                     StringField(raw, "details"))

ToolExecutionErrorVal(raw) ==
  ToolExecutionError(StringField(raw, "toolName"),
                     StringField(raw, "errorType"),
                     StringField(raw, "details"))

EDecoded(v) == [e |-> v, err |-> ""]

ERejected(v, err) == [e |-> v, err |-> err]

\* the Code and Message of the wire, assigned before the data is looked at
WithCodeMessage(v, data) ==
  [v EXCEPT !.Code = IntField(data, "code"),
            !.Message = StringField(data, "message")]

\* the errorType is looked at before the code: data without one is skipped
ErrorInfoUnmarshalJSON_TypeFirst(v, data) ==
  IF AuxErr(data) # "" THEN ERejected(v, AuxErr(data))
  ELSE LET v1 == WithCodeMessage(v, data)
           raw == Field(data, "data") IN
    IF raw = JMissing THEN EDecoded(v1)
    ELSE IF TempErr(raw) # "" THEN ERejected(v1, TempErr(raw))
    ELSE IF MembersOf(raw, "errorType") = <<>> THEN EDecoded(v1)
    ELSE IF v1.Code = ErrInvalidParams THEN
      IF ValidationErrorErr(raw) # ""
      THEN ERejected(v1, ValidationErrorErr(raw))
      ELSE EDecoded([v1 EXCEPT !.Data = Ptr(ValidationErrorVal(raw))])
    ELSE IF v1.Code = ErrInternal THEN
      IF TempVal(raw) = "toolExecution" THEN
        IF ToolExecutionErrorErr(raw) # ""
        THEN ERejected(v1, ToolExecutionErrorErr(raw))
        ELSE EDecoded([v1 EXCEPT !.Data = Ptr(ToolExecutionErrorVal(raw))])
      ELSE ERejected(v1, "unknown error type")
    ELSE EDecoded(v1)

\* func (e *ErrorInfo) UnmarshalJSON(data []byte) error, on the target v
ErrorInfoUnmarshalJSON(v, data) ==
  IF AuxErr(data) # "" THEN ERejected(v, AuxErr(data))
  ELSE LET v1 == WithCodeMessage(v, data)
           raw == Field(data, "data") IN
    IF raw = JMissing THEN EDecoded(v1)
    ELSE IF TempErr(raw) # "" THEN ERejected(v1, TempErr(raw))
    ELSE IF v1.Code = ErrInvalidParams THEN
      IF ValidationErrorErr(raw) # ""
      THEN ERejected(v1, ValidationErrorErr(raw))
      ELSE EDecoded([v1 EXCEPT !.Data = Ptr(ValidationErrorVal(raw))])
    ELSE IF v1.Code = ErrInternal THEN
      IF TempVal(raw) = "toolExecution" THEN
        IF ToolExecutionErrorErr(raw) # ""
        THEN ERejected(v1, ToolExecutionErrorErr(raw))
        ELSE EDecoded([v1 EXCEPT !.Data = Ptr(ToolExecutionErrorVal(raw))])
      ELSE ERejected(v1, "unknown error type")
    ELSE EDecoded(v1)

\* func NewValidationError(failures []ValidationFailure) *ErrorInfo
NewValidationError(failures) ==
  [Code |-> ErrInvalidParams, Message |-> "Invalid parameters",
   Data |-> Ptr(ValidationError(failures))]

\* func NewToolExecutionError(toolName, errorType, details string) *ErrorInfo
NewToolExecutionError(toolName, errorType, details) ==
  [Code |-> ErrInternal, Message |-> "Tool execution failed",
   Data |-> Ptr(ToolExecutionError(toolName, errorType, details))]

(***************************************************************************)
(* Values and wires the Content operations are run on                      *)
(***************************************************************************)
MaxAudience == 1

MaxReuse == 1

Roles == {RoleUser, RoleAssistant}

AudienceVals == UNION {[1..n -> Roles] : n \in 0..MaxAudience}

PriorityVals == {Tenths(0), Tenths(8)}

AnnotationVals ==
  Opt([Audience : AudienceVals, Priority : Opt(PriorityVals)])

\* the annotation of the package's usage example, or none
AnnotationFew ==
  {Nil, Ptr([Audience |-> <<RoleAssistant>>, Priority |-> Ptr(Tenths(8))])}

\* a priority that is no number
AnnotationNaN == Ptr([Audience |-> <<>>, Priority |-> Ptr(NaN)])

TextVals == {"", "Hello"}

DataVals == {"d"}

MimeVals == {"m"}

TextContentVals ==
  [Text : TextVals, Annotations : AnnotationVals]
  \cup {[Text |-> "Hello", Annotations |-> AnnotationNaN]}

ImageContentVals ==
  [Data : DataVals, MimeType : MimeVals, Annotations : AnnotationFew]

ResourceContentVals ==
  [URI : {"u"}, Text : Opt({"", "Hello"}), Blob : Opt({"b"}),
   MimeType : Opt({"m"}), Annotations : AnnotationFew]

OneOfTextBlob(r) == (r.Text = Nil) # (r.Blob = Nil)

\* the Content values of the round-trip law: the tag set, that variant
\* alone populated, a resource holding exactly one of text and blob
ValidContents ==
  {NewTextContent(t.Text, t.Annotations) : t \in TextContentVals}
  \cup {NewImageContent(i.Data, i.MimeType, i.Annotations) :
          i \in ImageContentVals}
  \cup {NewResourceLiteral(r) : r \in {x \in ResourceContentVals :
                                         OneOfTextBlob(x)}}

\* Content{Type: t}: a tag and no variant (the zero value when t = "")
TypeOnlyLiterals ==
  {[ZeroContent EXCEPT !.Type = t] :
     t \in {"", ContentTypeText, ContentTypeImage, ContentTypeResource,
            "video"}}

TypeMembers ==
  {JMissing, JNull, JNum(1), JStr(""), JStr("video"),
   JStr(ContentTypeText), JStr(ContentTypeImage), JStr(ContentTypeResource)}

\* wire objects written by hand: any tag with a uri and any subset of the
\* members text and blob, or with any subset of the members of an image
\* (data, mimeType); a text member may be of the wrong JSON kind
HandWires ==
  {JObj(DropMissing(<<Member("type", t), Member("uri", JStr("u")),
                      Member("text", x), Member("blob", b)>>)) :
     t \in TypeMembers,
     x \in {JMissing, JStr("Hello"), JNum(1)}, b \in {JMissing, JStr("b")}}
  \cup
  {JObj(DropMissing(<<Member("type", t), Member("data", d),
                      Member("mimeType", m)>>)) :
     t \in TypeMembers, d \in {JMissing, JStr("d")},
     m \in {JMissing, JStr("m")}}

\* annotations members with keys in another case, with a member of the
\* wrong kind, or with a member written twice
OddAnnotations ==
  {JObj(<<Spelt(<<"a", "U", "d", "i", "e", "n", "c", "e">>,
                JArr(<<JStr(RoleUser)>>)),
          Spelt(<<"P", "R", "I", "O", "R", "I", "T", "Y">>, JNum(8))>>),
   JObj(<<Spelt(<<"p", "r", "i", "o", "r", "i", "t", "Y">>, JStr("high"))>>),
   JObj(<<Member("priority", JStr("high")), Member("priority", JNum(8))>>),
   JObj(<<Member("audience", JArr(<<JStr(RoleUser), JStr(RoleAssistant)>>)),
          Member("audience", JArr(<<JNull>>))>>)}

\* wire objects with keys in another case, or with a member written twice
OddWires ==
  {JObj(<<Spelt(<<"t", "Y", "p", "e">>, JStr(ContentTypeText)),
          Member("text", JStr("Hello"))>>),
   JObj(<<Spelt(<<"T", "Y", "P", "E">>, JStr("video")),
          Spelt(<<"t", "E", "x", "t">>, JStr("Hello"))>>),
   JObj(<<Spelt(<<"T", "Y", "P", "E">>, JNum(1))>>),
   JObj(<<Member("type", JNum(1)), Member("type", JStr(ContentTypeText)),
          Member("text", JStr("Hello"))>>),
   JObj(<<Member("type", JStr("video")),
          Member("type", JStr(ContentTypeText)),
          Member("text", JStr("Hello"))>>),
   JObj(<<Member("type", JStr(ContentTypeText)),
          Member("type", JStr("video"))>>),
   JObj(<<Member("type", JNum(1)), Member("type", JStr("video"))>>),
   JObj(<<Member("type", JStr(ContentTypeText)), Member("type", JNull),
          Member("text", JStr("Hello"))>>),
   JObj(<<Member("type", JStr(ContentTypeText)), Member("text", JNum(1)),
          Member("text", JStr("Hello"))>>),
   JObj(<<Member("type", JStr(ContentTypeText)),
          Spelt(<<"T", "E", "X", "T">>,
                JNum(1))>>),
   JObj(<<Member("type", JStr(ContentTypeImage)),
          Spelt(<<"d", "A", "t", "a">>,
                JStr("d")),
          Spelt(<<"M", "i", "m", "e", "t", "y", "p", "e">>, JStr("m"))>>),
   JObj(<<Member("type", JStr(ContentTypeImage)),
          Spelt(<<"D", "A", "T", "A">>,
                JNum(1))>>),
   JObj(<<Member("type", JStr(ContentTypeResource)),
          Spelt(<<"u", "R", "I">>, JStr("u")),
          Spelt(<<"b", "l", "o", "B">>, JStr("b"))>>),
   JObj(<<Member("type", JStr(ContentTypeResource)),
          Member("uri", JStr("u")), Spelt(<<"t", "E", "x", "t">>, JNum(1))>>)}
  \cup
  {JObj(<<Member("type", JStr(ContentTypeText)),
          Member("text", JStr("Hello")), Member("annotations", a)>>) :
     a \in OddAnnotations}
  \cup
  {JObj(<<Member("type", JStr(ContentTypeText)),
          Member("text", JStr("Hello")),
          Member("annotations",
                 JObj(<<Member("audience", JArr(<<JStr(RoleUser)>>))>>)),
          Spelt(<<"a", "n", "n", "o", "t", "a", "t", "i", "o", "n", "S">>,
                JObj(<<Member("priority", JNum(8))>>))>>),
   JObj(<<Member("type", JStr(ContentTypeText)),
          Member("text", JStr("Hello")),
          Spelt(<<"a", "n", "n", "o", "t", "a", "t", "i", "o", "n", LongS>>,
                JObj(<<Member("priority", JNum(8))>>))>>),
   JObj(<<Member("type", JStr(ContentTypeText)),
          Spelt(<<"t", "e", "x", "t", "s">>, JNum(1)),
          Spelt(<<"t", "e", "x">>, JNum(1)),
          Member("text", JStr("Hello"))>>)}

ContentWires == {BadJSON, JNull, JStr("text")} \cup HandWires \cup OddWires

\* make(map[string]json.RawMessage), and the nil map of a zero struct
EmptyMap == <<>>

(***************************************************************************)
(* The JSON schema node                                                    *)
(***************************************************************************)
TypeObject == "object"

TypeArray == "array"

TypeString == "string"

TypeNumber == "number"

TypeInteger == "integer"

TypeBoolean == "boolean"

\* JSONSchema{}: a nil map, nil slices and nil pointers
ZeroSchema ==
  [Type |-> "", Properties |-> EmptyMap, Required |-> <<>>, Items |-> Nil,
   Enum |-> <<>>, MinLength |-> Nil, MaxLength |-> Nil, Minimum |-> Nil,
   Maximum |-> Nil, Pattern |-> Nil]

\* JSONSchema{Type: t}
SchemaOfType(t) == [ZeroSchema EXCEPT !.Type = t]

(***************************************************************************)
(* Operations on the Content value                                         *)
(***************************************************************************)
\* no wire was decoded
NoWire == [kind |-> "none", typ |-> JMissing, keys |-> {}, plain |-> TRUE]

\* what is kept of the bytes handed to UnmarshalJSON: their JSON kind, the
\* member written for the field type, the fields that members are written
\* for, and whether each is written for once
WireSummary(data) ==
  [kind |-> data.k, typ |-> Field(data, "type"),
   keys |-> FieldsOf(data),
   plain |-> UniqueKeys(data)]

\* what a construction leaves in the bookkeeping variables
AfterBuild ==
  /\ cIn' = NoWire
  /\ cSrc' = Nil
  /\ cFresh' = FALSE
  /\ cN' = 0
  /\ cErr' = ""
  /\ cOut' = Nil
  /\ UNCHANGED <<evars, bvars, vvars, hvars, svars>>

DoNewTextContent ==
  \E text \in TextVals, a \in AnnotationVals :
    /\ c' = NewTextContent(text, a)
    /\ cOp' = "NewTextContent"
    /\ AfterBuild

DoNewImageContent ==
  \E data \in DataVals, m \in MimeVals, a \in AnnotationFew :
    /\ c' = NewImageContent(data, m, a)
    /\ cOp' = "NewImageContent"
    /\ AfterBuild

\* Content{Type: ContentTypeResource, ResourceContent: rc}, with rc as
\* NewResourceContent returns it: exactly one of text and blob
DoResourceLiteral ==
  \E r \in {x \in ResourceContentVals : OneOfTextBlob(x)} :
    /\ c' = NewResourceLiteral(r)
    /\ cOp' = "literal"
    /\ AfterBuild

\* Content{Type: t}, and var content Content when t is empty
DoTypeOnlyLiteral ==
  \E v \in TypeOnlyLiterals :
    /\ c' = v
    /\ cOp' = "literal"
    /\ AfterBuild

DoContentMarshalJSON ==
  /\ cOp' = "MarshalJSON"
  /\ cOut' = ContentMarshalJSON(c).bytes
  /\ cErr' = ContentMarshalJSON(c).err
  /\ cIn' = NoWire
  /\ cSrc' = Nil
  /\ cFresh' = FALSE
  /\ UNCHANGED <<c, cN>>
  /\ UNCHANGED <<evars, bvars, vvars, hvars, svars>>

\* json.Unmarshal(data, &c) on the Content at hand, whatever it holds
DoContentUnmarshalJSON ==
  /\ c = ZeroContent \/ cN < MaxReuse
  /\ \E data \in ContentWires :
       /\ c' = ContentUnmarshalJSON(c, data).c
       /\ cErr' = ContentUnmarshalJSON(c, data).err
       /\ cIn' = WireSummary(data)
  /\ cOp' = "UnmarshalJSON"
  /\ cSrc' = Nil
  /\ cFresh' = (c = ZeroContent)
  /\ cN' = IF c = ZeroContent THEN 0 ELSE cN + 1
  /\ cOut' = Nil
  /\ UNCHANGED <<evars, bvars, vvars, hvars, svars>>

\* data, _ := json.Marshal(v); var d Content; json.Unmarshal(data, &d)
DoContentDecodeEncoded ==
  /\ \E v \in ValidContents :
       /\ ContentMarshalJSON(v).err = ""
       /\ LET data == ContentMarshalJSON(v).bytes[1] IN
            /\ c' = ContentUnmarshalJSON(ZeroContent, data).c
            /\ cErr' = ContentUnmarshalJSON(ZeroContent, data).err
            /\ cIn' = WireSummary(data)
       /\ cSrc' = Ptr(v)
  /\ cOp' = "UnmarshalJSON"
  /\ cFresh' = TRUE
  /\ cN' = 0
  /\ cOut' = Nil
  /\ UNCHANGED <<evars, bvars, vvars, hvars, svars>>

Init ==
  /\ c = ZeroContent
  /\ cOp = "init"
  /\ cIn = NoWire
  /\ cSrc = Nil
  /\ cFresh = FALSE
  /\ cN = 0
  /\ cErr = ""
  /\ cOut = Nil
  /\ e = ZeroErrorInfo
  /\ eOp = "init"
  /\ eIn = JMissing
  /\ eFresh = FALSE
  /\ eN = 0
  /\ eSrc = Nil
  /\ eErr = ""
  /\ eOut = Nil
  /\ bVal = Nil
  /\ bOp = "init"
  /\ bIn = [opts |-> <<>>]
  /\ bErr = ""
  /\ bRan = 0
  /\ vIn = Nil
  /\ vOp = "init"
  /\ vErrs = <<>>
  /\ hHeap = <<>>
  /\ hVal = Nil
  /\ hOp = "init"
  /\ hBuilt = Nil
  /\ StringSchema = SchemaOfType(TypeString)
  /\ NumberSchema = SchemaOfType(TypeNumber)
  /\ IntegerSchema = SchemaOfType(TypeInteger)
  /\ BooleanSchema = SchemaOfType(TypeBoolean)
  /\ sNode = Nil
  /\ sOp = "init"
  /\ sIn = <<>>
  /\ sCalls = 0

NextContent ==
  \/ DoNewTextContent
  \/ DoNewImageContent
  \/ DoResourceLiteral
  \/ DoTypeOnlyLiteral
  \/ DoContentMarshalJSON
  \/ DoContentUnmarshalJSON
  \/ DoContentDecodeEncoded

SpecContent == Init /\ [][NextContent]_vars

(***************************************************************************)
(* Values and wires the ErrorInfo operations are run on                    *)
(***************************************************************************)
MaxFailures == 2

FailureVals ==
  {[Field |-> "maxTokens", Error |-> "must be positive"],
   [Field |-> "temperature", Error |-> "must be between 0 and 1"]}

\* nil, and the slices of up to MaxFailures failures ([]ValidationFailure{}
\* among them)
FailureLists ==
  {NilSlice}
  \cup {MakeSlice(fs) : fs \in UNION {[1..n -> FailureVals] :
                                        n \in 0..MaxFailures}}

ToolNameVals == {"searchCode"}

ErrTypeVals == {"timeout", "toolExecution", ""}

DetailVals == {"", "Operation timed out after 30s"}

\* what the two helper constructors return
ConstructedErrors ==
  {NewValidationError(fs) : fs \in FailureLists}
  \cup {NewToolExecutionError(n, t, d) :
          n \in ToolNameVals, t \in ErrTypeVals, d \in DetailVals}

ErrorCodes ==
  {ErrParse, ErrInvalidRequest, ErrMethodNotFound, ErrInvalidParams,
   ErrInternal}

ErrorTypeMembers ==
  {JMissing, JStr("validation"), JStr("toolExecution"), JStr("timeout"),
   JNum(1)}

\* data members written by hand: none, null, a string, and objects in the
\* shape of a validation error or of a tool execution error, with any
\* errorType or none
HandData ==
  {JMissing, JNull, JStr("oops")}
  \cup
  {JObj(DropMissing(<<Member("errorType", t), Member("validation", v)>>)) :
     t \in ErrorTypeMembers,
     v \in {JMissing, JStr("oops"),
            JArr(<<JObj(<<Member("field", JStr("maxTokens")),
                          Member("error", JStr("must be positive"))>>)>>)}}
  \cup
  {JObj(DropMissing(<<Member("toolName", n), Member("errorType", t),
                      Member("details", d)>>)) :
     n \in {JMissing, JStr("searchCode")}, t \in ErrorTypeMembers,
     d \in {JMissing, JStr("Operation timed out after 30s")}}

\* data members with keys in another case, with an empty list, or with a
\* member written twice
OddData ==
  {JObj(<<Spelt(<<"V", "a", "l", "i", "d", "a", "t", "i", "o", "n">>,
            JArr(<<JObj(<<Spelt(<<"f", "I", "e", "l", "d">>, JStr("maxTokens")),
                          Spelt(<<"e", "R", "R", "o", "r">>,
                                JStr("must be positive"))>>)>>))>>),
   JObj(<<Member("validation", JArr(<<>>))>>),
   JObj(<<Spelt(<<"V", "A", "L", "I", "D", "A", "T", "I", "O", "N">>,
                JStr("oops"))>>),
   JObj(<<Member("validation", JArr(<<JObj(<<Spelt(<<"F", "I", "E", "L", "D">>,
                JNum(1))>>)>>))>>),
   JObj(<<Member("validation",
            JArr(<<JObj(<<Member("field", JStr("maxTokens")),
                          Member("error", JStr("must be positive"))>>)>>)),
          Member("validation",
            JArr(<<JObj(<<Member("field", JStr("temperature"))>>)>>))>>),
   JObj(<<Spelt(<<"E", "r", "r", "o", "r", "t", "y", "p", "e">>,
                JStr("toolExecution")),
          Spelt(<<"T", "o", "o", "l", "N", "a", "m", "e">>, JStr("searchCode")),
          Spelt(<<"D", "E", "T", "A", "I", "L", "S">>,
                JStr("Operation timed out after 30s"))>>),
   JObj(<<Member("errorType", JStr("toolExecution")),
          Member("toolName", JStr("searchCode")),
          Spelt(<<"d", "e", "t", "a", "i", "l", "S">>, JNum(1))>>),
   JObj(<<Member("errorType", JNum(1)),
          Member("errorType", JStr("toolExecution")),
          Member("toolName", JStr("searchCode"))>>),
   JObj(<<Spelt(<<"e", "r", "r", "T", "y", "p", "e">>, JStr("toolExecution")),
          Member("toolName", JStr("searchCode"))>>)}

\* wire objects with keys in another case, or with a member written twice
OddErrorWires ==
  {JObj(<<Spelt(<<"c", "O", "D", "E">>, JNum(code)),
          Spelt(<<"M", "E", "S", "S", "A", "G", "E">>, JStr("boom")),
          Member("data", d)>>) :
     code \in {ErrParse, ErrInvalidParams, ErrInternal}, d \in OddData}
  \cup
  {JObj(<<Member("code", JStr("x")), Member("code", JNum(ErrInvalidParams)),
          Member("message", JStr("boom")), Member("data", JObj(<<>>))>>),
   JObj(<<Member("code", JNum(ErrInternal)),
          Member("code", JNum(ErrInvalidParams)),
          Member("message", JStr("boom")), Member("data", JObj(<<>>))>>),
   JObj(<<Member("code", JNum(ErrInvalidParams)),
          Member("message", JStr("boom")), Member("data", JStr("oops")),
          Member("data", JObj(<<>>))>>)}

ErrorWires ==
  {BadJSON, JStr("error")} \cup OddErrorWires
  \cup {JObj(DropMissing(<<Member("code", JNum(code)),
                           Member("message", JStr("boom")),
                           Member("data", d)>>)) :
          code \in ErrorCodes, d \in HandData}

(***************************************************************************)
(* Operations on the ErrorInfo value                                       *)
(***************************************************************************)
\* what a construction leaves in the bookkeeping variables
AfterEBuild ==
  /\ eIn' = JMissing
  /\ eFresh' = FALSE
  /\ eSrc' = Nil
  /\ eN' = 0
  /\ eErr' = ""
  /\ eOut' = Nil
  /\ UNCHANGED <<cvars, bvars, vvars, hvars, svars>>

\* var err ErrorInfo
DoDeclareErrorInfo ==
  /\ e' = ZeroErrorInfo
  /\ eOp' = "var"
  /\ AfterEBuild

DoNewValidationError ==
  \E fs \in FailureLists :
    /\ e' = NewValidationError(fs)
    /\ eOp' = "NewValidationError"
    /\ AfterEBuild

DoNewToolExecutionError ==
  \E n \in ToolNameVals, t \in ErrTypeVals, d \in DetailVals :
    /\ e' = NewToolExecutionError(n, t, d)
    /\ eOp' = "NewToolExecutionError"
    /\ AfterEBuild

DoErrorInfoMarshalJSON ==
  /\ eOp' = "MarshalJSON"
  /\ eOut' = ErrorInfoMarshalJSON(e).bytes
  /\ eErr' = ErrorInfoMarshalJSON(e).err
  /\ eIn' = JMissing
  /\ eFresh' = FALSE
  /\ eSrc' = Nil
  /\ UNCHANGED <<e, eN>>
  /\ UNCHANGED <<cvars, bvars, vvars, hvars, svars>>

\* json.Unmarshal(data, &e) on the ErrorInfo at hand, whatever it holds
DoErrorInfoUnmarshalJSON ==
  /\ e = ZeroErrorInfo \/ eN < MaxReuse
  /\ \E data \in ErrorWires :
       /\ e' = ErrorInfoUnmarshalJSON(e, data).e
       /\ eErr' = ErrorInfoUnmarshalJSON(e, data).err
       /\ eIn' = data
  /\ eOp' = "UnmarshalJSON"
  /\ eFresh' = (e = ZeroErrorInfo)
  /\ eSrc' = Nil
  /\ eOut' = Nil
  /\ eN' = IF e = ZeroErrorInfo THEN 0 ELSE eN + 1
  /\ UNCHANGED <<cvars, bvars, vvars, hvars, svars>>

\* data, _ := json.Marshal(v); var d ErrorInfo; json.Unmarshal(data, &d)
DoErrorInfoDecodeEncoded ==
  /\ \E v \in ConstructedErrors :
       /\ ErrorInfoMarshalJSON(v).err = ""
       /\ LET data == ErrorInfoMarshalJSON(v).bytes[1] IN
            /\ e' = ErrorInfoUnmarshalJSON(ZeroErrorInfo, data).e
            /\ eErr' = ErrorInfoUnmarshalJSON(ZeroErrorInfo, data).err
            /\ eIn' = data
       /\ eSrc' = Ptr(v)
  /\ eOp' = "UnmarshalJSON"
  /\ eFresh' = TRUE
  /\ eOut' = Nil
  /\ eN' = 0
  /\ UNCHANGED <<cvars, bvars, vvars, hvars, svars>>

NextError ==
  \/ DoDeclareErrorInfo
  \/ DoNewValidationError
  \/ DoNewToolExecutionError
  \/ DoErrorInfoMarshalJSON
  \/ DoErrorInfoUnmarshalJSON
  \/ DoErrorInfoDecodeEncoded

SpecError == Init /\ [][NextError]_vars

(***************************************************************************)
(* Constructors with options.  An option is a record naming the function   *)
(* that made it and carrying its arguments; "custom" is an option written  *)
(* by the caller (the option types are exported func types): it returns an *)
(* error, or returns nil after leaving the value alone or assigning its    *)
(* Method.  A step on a value under construction yields the value it       *)
(* leaves and the error it returns.                                        *)
(***************************************************************************)
Applied(v) == [val |-> v, err |-> ""]

Declined(v, err) == [val |-> v, err |-> err]

\* what a constructor returns, with the number of options it has called
Returned(v, ran) == [val |-> Ptr(v), err |-> "", ran |-> ran]

Refused(err, ran) == [val |-> Nil, err |-> err, ran |-> ran]

\* an option type is func(*T) error: any function of the caller fits, one
\* that assigns a field of the value it is handed included
CustomOption(fails, method, v) ==
  IF fails THEN Declined(v, "custom option failed")
  ELSE IF method # Nil /\ "Method" \in DOMAIN v
  THEN Applied([v EXCEPT !.Method = method[1]])
  ELSE Applied(v)

(***************************************************************************)
(* content.go : Annotations.Validate                                       *)
(***************************************************************************)
\* func (a *Annotations) Validate() error
AnnotationsValidate(a) ==
  IF a = Nil THEN ""
  ELSE IF a[1].Priority # Nil
          /\ (\/ RatLess(a[1].Priority[1], Float(0))
              \/ RatLess(Float(1), a[1].Priority[1]))
       THEN "priority must be between 0 and 1"
  ELSE IF \E i \in 1..Len(a[1].Audience) :
            a[1].Audience[i] \notin {RoleUser, RoleAssistant}
       THEN "invalid role in audience"
  ELSE ""

(***************************************************************************)
(* resource.go : Resource, ResourceTemplate, ResourceContent               *)
(***************************************************************************)
WithResourceDescription(description, r) ==
  Applied([r EXCEPT !.Description = Ptr(description)])

WithResourceMimeType(mimeType, r) ==
  Applied([r EXCEPT !.MimeType = Ptr(mimeType)])

WithResourceAnnotations(annotations, r) ==
  Applied([r EXCEPT !.Annotations = annotations])

WithTemplateDescription(description, rt) ==
  Applied([rt EXCEPT !.Description = Ptr(description)])

WithTemplateMimeType(mimeType, rt) ==
  Applied([rt EXCEPT !.MimeType = Ptr(mimeType)])

WithTemplateAnnotations(annotations, rt) ==
  Applied([rt EXCEPT !.Annotations = annotations])

WithContentText(text, rc) ==
  IF rc.Blob # Nil
  THEN Declined(rc, "cannot set text when blob is already set")
  ELSE Applied([rc EXCEPT !.Text = Ptr(text)])

WithContentBlob(blob, rc) ==
  IF rc.Text # Nil
  THEN Declined(rc, "cannot set blob when text is already set")
  ELSE Applied([rc EXCEPT !.Blob = Ptr(blob)])

WithContentMimeType(mimeType, rc) ==
  Applied([rc EXCEPT !.MimeType = Ptr(mimeType)])

WithContentAnnotations(annotations, rc) ==
  Applied([rc EXCEPT !.Annotations = annotations])

(***************************************************************************)
(* progress.go (second half of message.go) : ProgressNotification          *)
(***************************************************************************)
\* total <= 0, then n.Params.Progress > total
WithProgressTotal(total, n) ==
  IF RatLessEq(total, Float(0))
  THEN Declined(n, "total must be positive")
  ELSE IF RatLess(total, n.Params.Progress)
  THEN Declined(n, "progress cannot exceed total")
  ELSE Applied([n EXCEPT !.Params.Total = Ptr(total)])

(***************************************************************************)
(* completion.go : CompleteRequest, CompleteResult                         *)
(***************************************************************************)
\* the check total < len(r.Completion.Values) left out
WithResultTotal_Unchecked(total, r) ==
  Applied([r EXCEPT !.Completion.Total = Ptr(total)])

WithResultTotal(total, r) ==
  IF total < Len(r.Completion.Values)
  THEN Declined(r, "total cannot be less than number of values")
  ELSE Applied([r EXCEPT !.Completion.Total = Ptr(total)])

WithHasMore(hasMore, r) ==
  Applied([r EXCEPT !.Completion.HasMore = Ptr(hasMore)])

\* Reference{Type, Name, URI}
NewPromptReference(name) ==
  [Type |-> "ref/prompt", Name |-> Ptr(name), URI |-> Nil]

NewResourceReference(uri) ==
  [Type |-> "ref/resource", Name |-> Nil, URI |-> Ptr(uri)]

\* the field of the other kind is not looked at
validateReference_NoCrossCheck(ref) ==
  CASE ref.Type = "ref/prompt" ->
         IF ref.Name = Nil \/ ref.Name = Ptr("")
         THEN "prompt reference requires name" ELSE ""
    [] ref.Type = "ref/resource" ->
         IF ref.URI = Nil \/ ref.URI = Ptr("")
         THEN "resource reference requires URI" ELSE ""
    [] OTHER -> "invalid reference type: " \o ref.Type

validateReference(ref) ==
  CASE ref.Type = "ref/prompt" ->
         IF ref.Name = Nil \/ ref.Name = Ptr("")
         THEN "prompt reference requires name"
         ELSE IF ref.URI # Nil THEN "prompt reference should not have URI"
         ELSE ""
    [] ref.Type = "ref/resource" ->
         IF ref.URI = Nil \/ ref.URI = Ptr("")
         THEN "resource reference requires URI"
         ELSE IF ref.Name # Nil
         THEN "resource reference should not have name"
         ELSE ""
    [] OTHER -> "invalid reference type: " \o ref.Type

(***************************************************************************)
(* The loop every option-taking constructor runs over its options          *)
(***************************************************************************)
RECURSIVE ApplyOptions(_, _)

(***************************************************************************)
(* prompt.go : Prompt                                                      *)
(***************************************************************************)
WithPromptDescription(description, p) ==
  Applied([p EXCEPT !.Description = Ptr(description)])

WithArgumentDescription(description, a) ==
  Applied([a EXCEPT !.Description = Ptr(description)])

WithArgumentRequired(required, a) ==
  Applied([a EXCEPT !.Required = Ptr(required)])

\* p.Arguments = append(p.Arguments, arg), unless an option of the argument
\* returned an error; r is the outcome of the loop over these options
AppendArgument(r, p) ==
  IF r.err # "" THEN Declined(p, "applying argument option: " \o r.err)
  ELSE Applied([p EXCEPT !.Arguments = Append(@, r.val)])

WithPromptArgument(name, opts, p) ==
  AppendArgument(
    ApplyOptions([Name |-> name, Description |-> Nil, Required |-> Nil],
                 opts), p)

(***************************************************************************)
(* logging.go : SetLevelRequest, LoggingMessageNotification                *)
(***************************************************************************)
LogLevelDebug == "debug"

LogLevelInfo == "info"

LogLevelNotice == "notice"

LogLevelWarning == "warning"

LogLevelError == "error"

LogLevelCritical == "critical"

LogLevelAlert == "alert"

LogLevelEmergency == "emergency"

\* the empty level passes
validateLoggingLevel_EmptyAllowed(level) ==
  IF level \in {LogLevelDebug, LogLevelInfo, LogLevelNotice, LogLevelWarning,
                LogLevelError, LogLevelCritical, LogLevelAlert,
                LogLevelEmergency, ""}
  THEN "" ELSE "invalid logging level: " \o level

validateLoggingLevel(level) ==
  IF level \in {LogLevelDebug, LogLevelInfo, LogLevelNotice, LogLevelWarning,
                LogLevelError, LogLevelCritical, LogLevelAlert,
                LogLevelEmergency}
  THEN "" ELSE "invalid logging level: " \o level

WithLogger(logger, msg) ==
  IF logger = "" THEN Declined(msg, "logger name cannot be empty")
  ELSE Applied([msg EXCEPT !.Params.Logger = Ptr(logger)])

(***************************************************************************)
(* A Go value of type interface{}: nil, a string, or a channel (a value    *)
(* encoding/json refuses)                                                  *)
(***************************************************************************)
GoNil == [g |-> "nil"]

GoString(s) == [g |-> "string", s |-> s]

GoChan == [g |-> "chan"]

\* json.Marshal(data)
MarshalAny(data) ==
  CASE data.g = "nil" -> Encoded(JNull)
    [] data.g = "string" -> Encoded(JStr(data.s))
    [] OTHER -> Failed("json: unsupported type")

(***************************************************************************)
(* capabilities.go : ServerCapabilities, ClientCapabilities                *)
(***************************************************************************)
LoggingCapability == [struct |-> "LoggingCapability"]

SamplingCapability == [struct |-> "SamplingCapability"]

\* an entry already there is kept
MapSet_KeepFirst(m, name, raw) == m @@ (name :> raw)

\* m[name] = raw
MapSet(m, name, raw) == (name :> raw) @@ m

WithServerLogging(sc) == Applied([sc EXCEPT !.Logging = Ptr(LoggingCapability)])

WithServerPrompts(listChanged, sc) ==
  Applied([sc EXCEPT !.Prompts = Ptr([ListChanged |-> Ptr(listChanged)])])

WithServerResources(subscribe, listChanged, sc) ==
  Applied([sc EXCEPT !.Resources = Ptr([Subscribe |-> Ptr(subscribe),
                                        ListChanged |-> Ptr(listChanged)])])

WithServerTools(listChanged, sc) ==
  Applied([sc EXCEPT !.Tools = Ptr([ListChanged |-> Ptr(listChanged)])])

WithServerExperimental(name, data, sc) ==
  IF MarshalAny(data).err # ""
  THEN Declined(sc, "marshaling experimental data: " \o MarshalAny(data).err)
  ELSE Applied([sc EXCEPT !.Experimental =
                  MapSet(@, name, MarshalAny(data).bytes[1])])

WithClientRoots(listChanged, cc) ==
  Applied([cc EXCEPT !.Roots = Ptr([ListChanged |-> Ptr(listChanged)])])

WithClientSampling(cc) ==
  Applied([cc EXCEPT !.Sampling = Ptr(SamplingCapability)])

WithClientExperimental(name, data, cc) ==
  IF MarshalAny(data).err # ""
  THEN Declined(cc, "marshaling experimental data: " \o MarshalAny(data).err)
  ELSE Applied([cc EXCEPT !.Experimental =
                  MapSet(@, name, MarshalAny(data).bytes[1])])

\* var caps ServerCapabilities
ZeroServerCapabilities ==
  [Experimental |-> EmptyMap, Logging |-> Nil, Prompts |-> Nil,
   Resources |-> Nil, Tools |-> Nil]

ZeroClientCapabilities ==
  [Experimental |-> EmptyMap, Roots |-> Nil, Sampling |-> Nil]

\* the return of a constructor after its loop: the error of the loop
\* wrapped, or the pointer to the value; r is the outcome of the loop
Finish(r, what) ==
  IF r.err # "" THEN Refused(what \o r.err, r.ran)
  ELSE Returned(r.val, r.ran)

NewServerCapabilities(opts) ==
  Finish(ApplyOptions(ZeroServerCapabilities, opts),
              "applying server capability option: ")

NewClientCapabilities(opts) ==
  Finish(ApplyOptions(ZeroClientCapabilities, opts),
              "applying client capability option: ")

(***************************************************************************)
(* initialize.go : InitializeRequest, InitializeResult                     *)
(***************************************************************************)
\* the constant is declared outside the files at hand; only its name is
\* known
LatestProtocolVersion == "LatestProtocolVersion"

WithProtocolVersion(version, r) ==
  Applied([r EXCEPT !.Params.ProtocolVersion = version])

\* r.Params.Capabilities = *caps, unless NewClientCapabilities failed
SetClientCapabilities(caps, r) ==
  IF caps.err # ""
  THEN Declined(r, "creating client capabilities: " \o caps.err)
  ELSE Applied([r EXCEPT !.Params.Capabilities = caps.val[1]])

WithClientCapabilities(opts, r) ==
  SetClientCapabilities(NewClientCapabilities(opts), r)

\* r.Capabilities = *caps, unless NewServerCapabilities failed
SetServerCapabilities(caps, r) ==
  IF caps.err # ""
  THEN Declined(r, "creating server capabilities: " \o caps.err)
  ELSE Applied([r EXCEPT !.Capabilities = caps.val[1]])

WithServerCapabilities(opts, r) ==
  SetServerCapabilities(NewServerCapabilities(opts), r)

WithInstructions(instructions, r) ==
  Applied([r EXCEPT !.Instructions = Ptr(instructions)])

(***************************************************************************)
(* opt(v): the call of one option on the value under construction          *)
(***************************************************************************)
ApplyOption(o, v) ==
  CASE o.opt = "custom" -> CustomOption(o.fails, o.method, v)
    [] o.opt = "WithResourceDescription" -> WithResourceDescription(o.s, v)
    [] o.opt = "WithResourceMimeType" -> WithResourceMimeType(o.s, v)
    [] o.opt = "WithResourceAnnotations" -> WithResourceAnnotations(o.a, v)
    [] o.opt = "WithTemplateDescription" -> WithTemplateDescription(o.s, v)
    [] o.opt = "WithTemplateMimeType" -> WithTemplateMimeType(o.s, v)
    [] o.opt = "WithTemplateAnnotations" -> WithTemplateAnnotations(o.a, v)
    [] o.opt = "WithContentText" -> WithContentText(o.s, v)
    [] o.opt = "WithContentBlob" -> WithContentBlob(o.s, v)
    [] o.opt = "WithContentMimeType" -> WithContentMimeType(o.s, v)
    [] o.opt = "WithContentAnnotations" -> WithContentAnnotations(o.a, v)
    [] o.opt = "WithProgressTotal" -> WithProgressTotal(o.f, v)
    [] o.opt = "WithResultTotal" -> WithResultTotal(o.n, v)
    [] o.opt = "WithHasMore" -> WithHasMore(o.b, v)
    [] o.opt = "WithPromptDescription" -> WithPromptDescription(o.s, v)
    [] o.opt = "WithPromptArgument" -> WithPromptArgument(o.s, o.opts, v)
    [] o.opt = "WithArgumentDescription" -> WithArgumentDescription(o.s, v)
    [] o.opt = "WithArgumentRequired" -> WithArgumentRequired(o.b, v)
    [] o.opt = "WithLogger" -> WithLogger(o.s, v)
    [] o.opt = "WithServerLogging" -> WithServerLogging(v)
    [] o.opt = "WithServerPrompts" -> WithServerPrompts(o.b, v)
    [] o.opt = "WithServerResources" -> WithServerResources(o.b, o.b2, v)
    [] o.opt = "WithServerTools" -> WithServerTools(o.b, v)
    [] o.opt = "WithServerExperimental" ->
         WithServerExperimental(o.s, o.data, v)
    [] o.opt = "WithClientRoots" -> WithClientRoots(o.b, v)
    [] o.opt = "WithClientSampling" -> WithClientSampling(v)
    [] o.opt = "WithClientExperimental" ->
         WithClientExperimental(o.s, o.data, v)
    [] o.opt = "WithProtocolVersion" -> WithProtocolVersion(o.s, v)
    [] o.opt = "WithClientCapabilities" -> WithClientCapabilities(o.opts, v)
    [] o.opt = "WithServerCapabilities" -> WithServerCapabilities(o.opts, v)
    [] o.opt = "WithInstructions" -> WithInstructions(o.s, v)

\* one more option was called
Counted(r) == [r EXCEPT !.ran = @ + 1]

\* the loop goes on after an option that returned an error, and reports
\* the error once every option has run
RECURSIVE ApplyOptions_KeepGoing(_, _)

KeptGoing(r, opts) ==
  [Counted(ApplyOptions_KeepGoing(r.val, opts))
     EXCEPT !.err = IF r.err # "" THEN r.err ELSE @]

\* if err := opt(v); err != nil { return ... }: with r the outcome of the
\* option called, the loop stops there on an error and goes on to the
\* options left otherwise
AfterOption(r, opts) ==
  IF r.err # "" THEN [val |-> r.val, err |-> r.err, ran |-> 1]
  ELSE Counted(ApplyOptions(r.val, opts))

ApplyOptions_KeepGoing(v, opts) ==
  IF opts = <<>> THEN [val |-> v, err |-> "", ran |-> 0]
  ELSE KeptGoing(ApplyOption(Head(opts), v), Tail(opts))

\* for _, opt := range opts { if err := opt(v); err != nil { return ... } }
\* yields the value reached, the error of the option that stopped the loop
\* and the number of options called
ApplyOptions(v, opts) ==
  IF opts = <<>> THEN [val |-> v, err |-> "", ran |-> 0]
  ELSE AfterOption(ApplyOption(Head(opts), v), Tail(opts))

(***************************************************************************)
(* The constructors                                                        *)
(***************************************************************************)
NewResource(uri, name, opts) ==
  IF uri = "" THEN Refused("resource URI cannot be empty", 0)
  ELSE IF name = "" THEN Refused("resource name cannot be empty", 0)
  ELSE Finish(ApplyOptions([URI |-> uri, Name |-> name,
                              Description |-> Nil, MimeType |-> Nil,
                              Annotations |-> Nil], opts),
              "applying resource option: ")

NewResourceTemplate(name, uriTemplate, opts) ==
  IF name = "" THEN Refused("template name cannot be empty", 0)
  ELSE IF uriTemplate = "" THEN Refused("URI template cannot be empty", 0)
  ELSE Finish(ApplyOptions([Name |-> name, URITemplate |-> uriTemplate,
                              Description |-> Nil, MimeType |-> Nil,
                              Annotations |-> Nil], opts),
              "applying template option: ")

\* the return of NewResourceContent after its loop, with the check of the
\* body; r is the outcome of the loop
FinishContent(r) ==
  IF r.err # "" THEN Refused("applying content option: " \o r.err, r.ran)
  ELSE IF \/ r.val.Text # Nil /\ r.val.Blob # Nil
          \/ r.val.Text = Nil /\ r.val.Blob = Nil
  THEN Refused("exactly one of text or blob must be set", r.ran)
  ELSE Returned(r.val, r.ran)

\* the check after the loop left out
NewResourceContent_NoFinalCheck(uri, opts) ==
  IF uri = "" THEN Refused("resource URI cannot be empty", 0)
  ELSE Finish(ApplyOptions([URI |-> uri, Text |-> Nil, Blob |-> Nil,
                              MimeType |-> Nil, Annotations |-> Nil], opts),
              "applying content option: ")

NewResourceContent(uri, opts) ==
  IF uri = "" THEN Refused("resource URI cannot be empty", 0)
  ELSE FinishContent(
         ApplyOptions([URI |-> uri, Text |-> Nil, Blob |-> Nil,
                       MimeType |-> Nil, Annotations |-> Nil], opts))

NewProgressNotification(token, progress, opts) ==
  IF RatLess(progress, Float(0))
  THEN Refused("progress cannot be negative", 0)
  ELSE Finish(ApplyOptions(
                  [Method |-> "notifications/progress",
                   Params |-> [ProgressToken |-> token,
                               Progress |-> progress, Total |-> Nil]], opts),
              "applying progress notification option: ")

NewProgressStart(token) == NewProgressNotification(token, Float(0), <<>>)

NewProgressComplete(token) == NewProgressNotification(token, Float(100), <<>>)

NewProgressPercentage(token, percentage) ==
  IF RatLess(percentage, Float(0)) \/ RatLess(Float(100), percentage)
  THEN Refused("percentage must be between 0 and 100", 0)
  ELSE NewProgressNotification(token, percentage, <<>>)

\* percentage := (float64(completed) / float64(total)) * 100
NewProgressWithItems(token, completed, total) ==
  IF completed < 0 THEN Refused("completed items cannot be negative", 0)
  ELSE IF total <= 0 THEN Refused("total items must be positive", 0)
  ELSE IF completed > total
  THEN Refused("completed items cannot exceed total items", 0)
  ELSE NewProgressNotification(token, Rat(completed * 100, total),
         <<[opt |-> "WithProgressTotal", f |-> Float(total)]>>)

NewCompleteRequest(ref, argName, argValue, opts) ==
  IF validateReference(ref) # ""
  THEN Refused("invalid reference: " \o validateReference(ref), 0)
  ELSE IF argName = "" THEN Refused("argument name cannot be empty", 0)
  ELSE Finish(ApplyOptions(
                  [Method |-> "completion/complete",
                   Params |-> [Ref |-> ref,
                               Argument |-> [Name |-> argName,
                                             Value |-> argValue]]], opts),
              "applying complete request option: ")

NewCompleteResult(values, opts) ==
  IF Len(values) > 100
  THEN Refused("completion values cannot exceed 100 items", 0)
  ELSE Finish(ApplyOptions(
                  [Completion |-> [Values |-> values, Total |-> Nil,
                                   HasMore |-> Nil]], opts),
              "applying complete result option: ")

NewPrompt(name, opts) ==
  IF name = "" THEN Refused("prompt name cannot be empty", 0)
  ELSE Finish(ApplyOptions([Name |-> name, Description |-> Nil,
                              Arguments |-> <<>>], opts),
              "applying prompt option: ")

NewSetLevelRequest(level, opts) ==
  IF validateLoggingLevel(level) # ""
  THEN Refused(validateLoggingLevel(level), 0)
  ELSE Finish(ApplyOptions([Method |-> "logging/setLevel",
                              Params |-> [Level |-> level]], opts),
              "applying set level request option: ")

NewLoggingMessage(level, data, opts) ==
  IF validateLoggingLevel(level) # ""
  THEN Refused(validateLoggingLevel(level), 0)
  ELSE IF data = GoNil THEN Refused("log data cannot be nil", 0)
  ELSE Finish(ApplyOptions(
                  [Method |-> "notifications/message",
                   Params |-> [Level |-> level, Data |-> data,
                               Logger |-> Nil]], opts),
              "applying logging message option: ")

NewInitializeRequest(clientInfo, opts) ==
  Finish(ApplyOptions(
             [Method |-> "initialize",
              Params |-> [ProtocolVersion |-> LatestProtocolVersion,
                          Capabilities |-> ZeroClientCapabilities,
                          ClientInfo |-> clientInfo]], opts),
              "applying initialize request option: ")

NewInitializeResult(serverInfo, opts) ==
  Finish(ApplyOptions(
             [ProtocolVersion |-> LatestProtocolVersion,
              ServerInfo |-> serverInfo,
              Capabilities |-> ZeroServerCapabilities,
              Instructions |-> Nil], opts),
              "applying initialize result option: ")

\* params.Meta is set when len(meta) > 0, and left nil otherwise
NewInitializedNotification(meta) ==
  [Method |-> "notifications/initialized",
   Params |-> Ptr([Meta |-> IF Cardinality(DOMAIN meta) > 0 THEN meta
                            ELSE EmptyMap])]

(***************************************************************************)
(* Arguments and options the constructors are called with                  *)
(***************************************************************************)
MaxOpts == 2

MaxItems == 4

\* the option lists of at most MaxOpts options drawn from S
OptSeqs(S) == UNION {[1..n -> S] : n \in 0..MaxOpts}

\* options of the caller's own: one that fails and one that does nothing
CustomOptions ==
  {[opt |-> "custom", fails |-> f, method |-> Nil] : f \in BOOLEAN}

\* and, for an envelope, one that assigns the Method
EnvelopeOptions ==
  CustomOptions
  \cup {[opt |-> "custom", fails |-> FALSE, method |-> Ptr("custom/method")]}

\* annotations as a caller can write them: any role string, any priority
\* (-0.1, 0.0, 0.8, 1.0, 1.5, NaN)
RoleInputs == {RoleUser, RoleAssistant, "system"}

AudienceInputs == UNION {[1..n -> RoleInputs] : n \in 0..MaxAudience}

PriorityInputs ==
  {Tenths(-1), Tenths(0), Tenths(8), Tenths(10), Tenths(15), NaN}

AnnotationInputs ==
  Opt([Audience : AudienceInputs, Priority : Opt(PriorityInputs)])

\* none, the annotation of the usage examples, a priority of 1.5, a role
\* that is neither user nor assistant
AnnotationSome ==
  {Nil,
   Ptr([Audience |-> <<RoleAssistant>>, Priority |-> Ptr(Tenths(8))]),
   Ptr([Audience |-> <<>>, Priority |-> Ptr(Tenths(15))]),
   Ptr([Audience |-> <<"system">>, Priority |-> Nil])}

\* an audience of a role the package knows followed by one it does not
AnnotationMixed == Ptr([Audience |-> <<RoleUser, "system">>, Priority |-> Nil])

ResourceOptions ==
  {[opt |-> "WithResourceDescription", s |-> "d"],
   [opt |-> "WithResourceDescription", s |-> ""],
   [opt |-> "WithResourceMimeType", s |-> "m"]}
  \cup {[opt |-> "WithResourceAnnotations", a |-> a] : a \in AnnotationSome}
  \cup CustomOptions

TemplateOptions ==
  {[opt |-> "WithTemplateDescription", s |-> "d"],
   [opt |-> "WithTemplateDescription", s |-> ""],
   [opt |-> "WithTemplateMimeType", s |-> "m"]}
  \cup {[opt |-> "WithTemplateAnnotations", a |-> a] : a \in AnnotationSome}
  \cup CustomOptions

ResourceContentOptions ==
  {[opt |-> "WithContentText", s |-> "Hello"],
   [opt |-> "WithContentBlob", s |-> "b"],
   [opt |-> "WithContentMimeType", s |-> "m"]}
  \cup {[opt |-> "WithContentAnnotations", a |-> a] : a \in AnnotationSome}
  \cup CustomOptions

ProgressInputs == {Float(-1), Float(0), Rat(1, 2), Float(50), NaN}

ProgressOptions ==
  {[opt |-> "WithProgressTotal", f |-> f] :
     f \in {Float(-1), Float(0), Rat(1, 4), Float(1), Float(50), Float(100),
            NaN}}
  \cup EnvelopeOptions

\* the counts of the usage examples and of the tested boundaries
ItemInputs ==
  {[completed |-> k, total |-> t] : k \in -1..(MaxItems + 1),
                                    t \in -1..MaxItems}
  \cup {[completed |-> 75, total |-> 100]}

ReferenceInputs ==
  [Type : {"ref/prompt", "ref/resource", "ref/tool"},
   Name : Opt({"", "generateCode"}), URI : Opt({"", "file:///configs"})]

\* lists of 0, 3, 99, 100 and 101 completion values
ValueInputs == {[i \in 1..n |-> "v"] : n \in {0, 3, 99, 100, 101}}

ResultOptions ==
  {[opt |-> "WithResultTotal", n |-> n] : n \in {-1, 0, 3, 5, 100, 101}}
  \cup {[opt |-> "WithHasMore", b |-> h] : h \in BOOLEAN}

ArgumentOptionSeqs ==
  {<<>>,
   <<[opt |-> "WithArgumentDescription", s |-> "d"]>>,
   <<[opt |-> "WithArgumentDescription", s |-> ""]>>,
   <<[opt |-> "WithArgumentRequired", b |-> TRUE]>>,
   <<[opt |-> "custom", fails |-> TRUE, method |-> Nil]>>,
   <<[opt |-> "WithArgumentDescription", s |-> "d"],
     [opt |-> "WithArgumentRequired", b |-> TRUE]>>}

PromptOptions ==
  {[opt |-> "WithPromptDescription", s |-> d] : d \in {"", "d"}}
  \cup {[opt |-> "WithPromptArgument", s |-> "language", opts |-> os] :
          os \in ArgumentOptionSeqs}
  \cup CustomOptions

LevelInputs ==
  {LogLevelDebug, LogLevelInfo, LogLevelNotice, LogLevelWarning,
   LogLevelError, LogLevelCritical, LogLevelAlert, LogLevelEmergency,
   "", "verbose", "Debug"}

LoggingMessageOptions ==
  {[opt |-> "WithLogger", s |-> s] : s \in {"", "database"}}
  \cup EnvelopeOptions

DataInputs == {GoNil, GoString("Connection established"), GoChan}

ExperimentalInputs == {GoString("a"), GoString("b"), GoChan}

ServerCapabilityOptions ==
  {[opt |-> "WithServerLogging"], [opt |-> "WithServerTools", b |-> TRUE]}
  \cup {[opt |-> "WithServerPrompts", b |-> l] : l \in BOOLEAN}
  \cup {[opt |-> "WithServerResources", b |-> TRUE, b2 |-> l] :
          l \in BOOLEAN}
  \cup {[opt |-> "WithServerExperimental", s |-> "streaming", data |-> d] :
          d \in ExperimentalInputs}
  \cup CustomOptions

ClientCapabilityOptions ==
  {[opt |-> "WithClientSampling"]}
  \cup {[opt |-> "WithClientRoots", b |-> l] : l \in BOOLEAN}
  \cup {[opt |-> "WithClientExperimental", s |-> "customFeature",
         data |-> d] : d \in ExperimentalInputs}
  \cup CustomOptions

ClientCapabilitySeqs ==
  {<<>>,
   <<[opt |-> "WithClientRoots", b |-> TRUE]>>,
   <<[opt |-> "WithClientSampling"]>>,
   <<[opt |-> "WithClientExperimental", s |-> "customFeature",
      data |-> GoString("a")]>>,
   <<[opt |-> "WithClientRoots", b |-> TRUE],
     [opt |-> "WithClientExperimental", s |-> "customFeature",
      data |-> GoChan]>>}

ServerCapabilitySeqs ==
  {<<>>,
   <<[opt |-> "WithServerLogging"]>>,
   <<[opt |-> "WithServerTools", b |-> TRUE]>>,
   <<[opt |-> "WithServerExperimental", s |-> "streaming",
      data |-> GoString("a")]>>,
   <<[opt |-> "WithServerLogging"],
     [opt |-> "WithServerExperimental", s |-> "streaming",
      data |-> GoChan]>>}

InitializeRequestOptions ==
  {[opt |-> "WithProtocolVersion", s |-> "2024-11-05"]}
  \cup {[opt |-> "WithClientCapabilities", opts |-> os] :
          os \in ClientCapabilitySeqs}
  \cup EnvelopeOptions

InitializeResultOptions ==
  {[opt |-> "WithInstructions", s |-> "i"]}
  \cup {[opt |-> "WithServerCapabilities", opts |-> os] :
          os \in ServerCapabilitySeqs}
  \cup CustomOptions

\* nil, and maps of one and two entries
MetaInputs ==
  {EmptyMap, MapSet(EmptyMap, "trace", GoString("a")),
   MapSet(MapSet(EmptyMap, "trace", GoString("a")), "span", GoNil)}

ImplementationInputs == {[Name |-> "example-client", Version |-> "1.0.0"]}

(***************************************************************************)
(* One call of a constructor or of a validator.  The constructors share no *)
(* state, so each behaviour makes one call, from the initial state.        *)
(***************************************************************************)
\* v, err := NewX(...): what the caller receives
Called(r) ==
  /\ bVal' = r.val
  /\ bErr' = r.err
  /\ bRan' = r.ran

DoNewResource ==
  /\ bOp = "init"
  /\ \E uri \in {"", "file:///config.yaml"}, name \in {"", "Configuration"},
        opts \in OptSeqs(ResourceOptions) :
       /\ Called(NewResource(uri, name, opts))
       /\ bIn' = [uri |-> uri, name |-> name, opts |-> opts]
  /\ bOp' = "NewResource"
  /\ UNCHANGED <<cvars, evars, vvars, hvars, svars>>

DoNewResourceTemplate ==
  /\ bOp = "init"
  /\ \E name \in {"", "ConfigFile"}, uriTemplate \in {"", "file:///{env}"},
        opts \in OptSeqs(TemplateOptions) :
       /\ Called(NewResourceTemplate(name, uriTemplate, opts))
       /\ bIn' = [name |-> name, uriTemplate |-> uriTemplate,
                    opts |-> opts]
  /\ bOp' = "NewResourceTemplate"
  /\ UNCHANGED <<cvars, evars, vvars, hvars, svars>>

DoNewResourceContent ==
  /\ bOp = "init"
  /\ \E uri \in {"", "file:///config.yaml"},
        opts \in OptSeqs(ResourceContentOptions) :
       /\ Called(NewResourceContent(uri, opts))
       /\ bIn' = [uri |-> uri, opts |-> opts]
  /\ bOp' = "NewResourceContent"
  /\ UNCHANGED <<cvars, evars, vvars, hvars, svars>>

DoNewProgressNotification ==
  /\ bOp = "init"
  /\ \E progress \in ProgressInputs, opts \in OptSeqs(ProgressOptions) :
       /\ Called(NewProgressNotification(1, progress, opts))
       /\ bIn' = [progress |-> progress, opts |-> opts]
  /\ bOp' = "NewProgressNotification"
  /\ UNCHANGED <<cvars, evars, vvars, hvars, svars>>

DoNewProgressWithItems ==
  /\ bOp = "init"
  /\ \E i \in ItemInputs :
       /\ Called(NewProgressWithItems(1, i.completed, i.total))
       /\ bIn' = i
  /\ bOp' = "NewProgressWithItems"
  /\ UNCHANGED <<cvars, evars, vvars, hvars, svars>>

DoNewCompleteRequest ==
  /\ bOp = "init"
  /\ \E ref \in ReferenceInputs, argName \in {"", "language"},
        opts \in OptSeqs(EnvelopeOptions) :
       /\ Called(NewCompleteRequest(ref, argName, "py", opts))
       /\ bIn' = [ref |-> ref, argName |-> argName, opts |-> opts]
  /\ bOp' = "NewCompleteRequest"
  /\ UNCHANGED <<cvars, evars, vvars, hvars, svars>>

DoNewCompleteResult ==
  /\ bOp = "init"
  /\ \E values \in ValueInputs, opts \in OptSeqs(ResultOptions) :
       /\ Called(NewCompleteResult(values, opts))
       /\ bIn' = [values |-> values, opts |-> opts]
  /\ bOp' = "NewCompleteResult"
  /\ UNCHANGED <<cvars, evars, vvars, hvars, svars>>

DoNewPrompt ==
  /\ bOp = "init"
  /\ \E name \in {"", "generateCode"}, opts \in OptSeqs(PromptOptions) :
       /\ Called(NewPrompt(name, opts))
       /\ bIn' = [name |-> name, opts |-> opts]
  /\ bOp' = "NewPrompt"
  /\ UNCHANGED <<cvars, evars, vvars, hvars, svars>>

DoNewSetLevelRequest ==
  /\ bOp = "init"
  /\ \E level \in LevelInputs, opts \in OptSeqs(EnvelopeOptions) :
       /\ Called(NewSetLevelRequest(level, opts))
       /\ bIn' = [level |-> level, opts |-> opts]
  /\ bOp' = "NewSetLevelRequest"
  /\ UNCHANGED <<cvars, evars, vvars, hvars, svars>>

DoNewLoggingMessage ==
  /\ bOp = "init"
  /\ \E level \in LevelInputs, data \in DataInputs,
        opts \in OptSeqs(LoggingMessageOptions) :
       /\ Called(NewLoggingMessage(level, data, opts))
       /\ bIn' = [level |-> level, data |-> data, opts |-> opts]
  /\ bOp' = "NewLoggingMessage"
  /\ UNCHANGED <<cvars, evars, vvars, hvars, svars>>

DoNewServerCapabilities ==
  /\ bOp = "init"
  /\ \E opts \in OptSeqs(ServerCapabilityOptions) :
       /\ Called(NewServerCapabilities(opts))
       /\ bIn' = [opts |-> opts]
  /\ bOp' = "NewServerCapabilities"
  /\ UNCHANGED <<cvars, evars, vvars, hvars, svars>>

DoNewClientCapabilities ==
  /\ bOp = "init"
  /\ \E opts \in OptSeqs(ClientCapabilityOptions) :
       /\ Called(NewClientCapabilities(opts))
       /\ bIn' = [opts |-> opts]
  /\ bOp' = "NewClientCapabilities"
  /\ UNCHANGED <<cvars, evars, vvars, hvars, svars>>

DoNewInitializeRequest ==
  /\ bOp = "init"
  /\ \E clientInfo \in ImplementationInputs,
        opts \in OptSeqs(InitializeRequestOptions) :
       /\ Called(NewInitializeRequest(clientInfo, opts))
       /\ bIn' = [clientInfo |-> clientInfo, opts |-> opts]
  /\ bOp' = "NewInitializeRequest"
  /\ UNCHANGED <<cvars, evars, vvars, hvars, svars>>

DoNewInitializeResult ==
  /\ bOp = "init"
  /\ \E serverInfo \in ImplementationInputs,
        opts \in OptSeqs(InitializeResultOptions) :
       /\ Called(NewInitializeResult(serverInfo, opts))
       /\ bIn' = [serverInfo |-> serverInfo, opts |-> opts]
  /\ bOp' = "NewInitializeResult"
  /\ UNCHANGED <<cvars, evars, vvars, hvars, svars>>

DoNewInitializedNotification ==
  /\ bOp = "init"
  /\ \E meta \in MetaInputs :
       /\ bVal' = Ptr(NewInitializedNotification(meta))
       /\ bIn' = [meta |-> meta]
  /\ bErr' = ""
  /\ bRan' = 0
  /\ bOp' = "NewInitializedNotification"
  /\ UNCHANGED <<cvars, evars, vvars, hvars, svars>>

\* NewTextContent(text, annotations) with annotations of any content
DoBuildTextContent ==
  /\ bOp = "init"
  /\ \E a \in AnnotationInputs :
       /\ bVal' = Ptr(NewTextContent("Hello", a))
       /\ bIn' = [a |-> a]
  /\ bErr' = ""
  /\ bRan' = 0
  /\ bOp' = "NewTextContent"
  /\ UNCHANGED <<cvars, evars, vvars, hvars, svars>>

DoBuildImageContent ==
  /\ bOp = "init"
  /\ \E a \in AnnotationInputs :
       /\ bVal' = Ptr(NewImageContent("d", "image/png", a))
       /\ bIn' = [a |-> a]
  /\ bErr' = ""
  /\ bRan' = 0
  /\ bOp' = "NewImageContent"
  /\ UNCHANGED <<cvars, evars, vvars, hvars, svars>>

\* err := a.Validate()
DoAnnotationsValidate ==
  /\ bOp = "init"
  /\ \E a \in AnnotationInputs \cup {AnnotationMixed} :
       /\ bErr' = AnnotationsValidate(a)
       /\ bIn' = [a |-> a]
  /\ bVal' = Nil
  /\ bRan' = 0
  /\ bOp' = "Annotations.Validate"
  /\ UNCHANGED <<cvars, evars, vvars, hvars, svars>>

NextConstruct ==
  \/ DoNewResource
  \/ DoNewResourceTemplate
  \/ DoNewResourceContent
  \/ DoNewProgressNotification
  \/ DoNewProgressWithItems
  \/ DoNewCompleteRequest
  \/ DoNewCompleteResult
  \/ DoNewPrompt
  \/ DoNewSetLevelRequest
  \/ DoNewLoggingMessage
  \/ DoNewServerCapabilities
  \/ DoNewClientCapabilities
  \/ DoNewInitializeRequest
  \/ DoNewInitializeResult
  \/ DoNewInitializedNotification
  \/ DoBuildTextContent
  \/ DoBuildImageContent
  \/ DoAnnotationsValidate

SpecConstruct == Init /\ [][NextConstruct]_vars

(***************************************************************************)
(* message.go : Message, ModelPreferences, CreateMessageParams             *)
(*                                                                         *)
(* A priority and the temperature are fractions of tenths, or NaN, as the  *)
(* priority of Annotations is.                                             *)
(***************************************************************************)
DigitString(d) ==
  CASE d = 0 -> "0" [] d = 1 -> "1" [] d = 2 -> "2" [] d = 3 -> "3"
    [] d = 4 -> "4" [] d = 5 -> "5" [] d = 6 -> "6" [] d = 7 -> "7"
    [] d = 8 -> "8" [] d = 9 -> "9"

RECURSIVE NatString(_)
NatString(n) ==
  IF n < 10 THEN DigitString(n)
  ELSE NatString(n \div 10) \o DigitString(n % 10)

\* fmt's %f of a number of tenths, six digits after the point, and of NaN
FormatF(x) ==
  LET t == InTenths(x) IN
    IF IsNaN(x) THEN "NaN"
    ELSE IF t < 0
    THEN "-" \o NatString((-t) \div 10) \o "." \o DigitString((-t) % 10)
           \o "00000"
    ELSE NatString(t \div 10) \o "." \o DigitString(t % 10) \o "00000"

\* *x < 0 || *x > 1
OutOfUnitRange(x) == RatLess(x, Float(0)) \/ RatLess(Float(1), x)

MessageValidate(m) ==
  IF m.Role \in {RoleUser, RoleAssistant} THEN ""
  ELSE "invalid role: " \o m.Role

\* the keys of the map priorities
PriorityNames == {"costPriority", "speedPriority", "intelligencePriority"}

\* priorities[name]
PriorityNamed(mp, name) ==
  CASE name = "costPriority" -> mp.CostPriority
    [] name = "speedPriority" -> mp.SpeedPriority
    [] name = "intelligencePriority" -> mp.IntelligencePriority

\* the orders in which a range over the map priorities can visit its keys:
\* the language leaves the order open
MapOrders ==
  {o \in [1..3 -> PriorityNames] :
     \A i \in 1..3 : \A j \in 1..3 : i # j => o[i] # o[j]}

\* for name, priority := range priorities { ... }, the keys visited in order
RECURSIVE RangePriorities(_, _)
RangePriorities(mp, order) ==
  IF order = <<>> THEN ""
  ELSE IF /\ PriorityNamed(mp, Head(order)) # Nil
          /\ OutOfUnitRange(PriorityNamed(mp, Head(order))[1])
  THEN Head(order) \o " must be between 0 and 1, got "
         \o FormatF(PriorityNamed(mp, Head(order))[1])
  ELSE RangePriorities(mp, Tail(order))

ModelPreferencesValidate(mp, order) ==
  IF mp = Nil THEN "" ELSE RangePriorities(mp[1], order)

IncludeContextNone == "none"

IncludeContextThisServer == "thisServer"

IncludeContextAllServers == "allServers"

CreateMessageParamsValidate(p, order) ==
  IF Len(p.Messages) = 0 THEN "messages cannot be empty"
  ELSE IF p.MaxTokens <= 0 THEN "maxTokens must be positive"
  ELSE IF p.Temperature # Nil /\ OutOfUnitRange(p.Temperature[1])
  THEN "temperature must be between 0 and 1"
  ELSE IF /\ p.IncludeContext # Nil
          /\ p.IncludeContext[1] \notin
               {IncludeContextNone, IncludeContextThisServer,
                IncludeContextAllServers}
  THEN "invalid includeContext value: " \o p.IncludeContext[1]
  ELSE IF /\ p.ModelPreferences # Nil
          /\ ModelPreferencesValidate(p.ModelPreferences, order) # ""
  THEN "invalid model preferences: "
         \o ModelPreferencesValidate(p.ModelPreferences, order)
  ELSE ""

(***************************************************************************)
(* The values the validators are called on                                 *)
(***************************************************************************)
MaxRuns == 2

MaxMessages == 1

\* -0.1, 0.0, 1.0, 1.5, NaN
UnitInputs == {Tenths(-1), Tenths(0), Tenths(10), Tenths(15), NaN}

MessageInputs ==
  [Role : RoleInputs, Content : {NewTextContent("Hello", Nil)}]

PreferencesInputs ==
  Opt([Hints : {<<>>}, CostPriority : Opt(UnitInputs),
       SpeedPriority : Opt(UnitInputs),
       IntelligencePriority : Opt(UnitInputs)])

ParamsInputs ==
  [Messages : UNION {[1..n -> {[Role |-> RoleUser,
                                Content |-> NewTextContent("Hello", Nil)]}] :
                       n \in 0..MaxMessages},
   ModelPreferences : PreferencesInputs,
   SystemPrompt : {Nil},
   IncludeContext : Opt({IncludeContextNone, IncludeContextThisServer,
                         IncludeContextAllServers, "everything"}),
   Temperature : Opt(UnitInputs),
   MaxTokens : {-1, 0, 1},
   StopSequences : {<<>>},
   Metadata : {EmptyMap}]

(***************************************************************************)
(* The calls of a validator on one value: a first call, and further calls  *)
(* on the value as it is                                                   *)
(***************************************************************************)
DoMessageValidate ==
  /\ vOp = "init"
  /\ \E m \in MessageInputs :
       /\ vIn' = m
       /\ vErrs' = <<MessageValidate(m)>>
  /\ vOp' = "Message.Validate"
  /\ UNCHANGED <<cvars, evars, bvars, hvars, svars>>

DoMessageValidateAgain ==
  /\ vOp = "Message.Validate"
  /\ Len(vErrs) < MaxRuns
  /\ vErrs' = Append(vErrs, MessageValidate(vIn))
  /\ UNCHANGED <<vIn, vOp>>
  /\ UNCHANGED <<cvars, evars, bvars, hvars, svars>>

DoModelPreferencesValidate ==
  /\ vOp = "init"
  /\ \E mp \in PreferencesInputs, order \in MapOrders :
       /\ vIn' = mp
       /\ vErrs' = <<ModelPreferencesValidate(mp, order)>>
  /\ vOp' = "ModelPreferences.Validate"
  /\ UNCHANGED <<cvars, evars, bvars, hvars, svars>>

DoModelPreferencesValidateAgain ==
  /\ vOp = "ModelPreferences.Validate"
  /\ Len(vErrs) < MaxRuns
  /\ \E order \in MapOrders :
       vErrs' = Append(vErrs, ModelPreferencesValidate(vIn, order))
  /\ UNCHANGED <<vIn, vOp>>
  /\ UNCHANGED <<cvars, evars, bvars, hvars, svars>>

DoCreateMessageParamsValidate ==
  /\ vOp = "init"
  /\ \E p \in ParamsInputs, order \in MapOrders :
       /\ vIn' = p
       /\ vErrs' = <<CreateMessageParamsValidate(p, order)>>
  /\ vOp' = "CreateMessageParams.Validate"
  /\ UNCHANGED <<cvars, evars, bvars, hvars, svars>>

DoCreateMessageParamsValidateAgain ==
  /\ vOp = "CreateMessageParams.Validate"
  /\ Len(vErrs) < MaxRuns
  /\ \E order \in MapOrders :
       vErrs' = Append(vErrs, CreateMessageParamsValidate(vIn, order))
  /\ UNCHANGED <<vIn, vOp>>
  /\ UNCHANGED <<cvars, evars, bvars, hvars, svars>>

NextValidate ==
  \/ DoMessageValidate
  \/ DoMessageValidateAgain
  \/ DoModelPreferencesValidate
  \/ DoModelPreferencesValidateAgain
  \/ DoCreateMessageParamsValidate
  \/ DoCreateMessageParamsValidateAgain

SpecValidate == Init /\ [][NextValidate]_vars

(***************************************************************************)
(* What the caller shares with a constructor.  The Annotations object the  *)
(* caller points to lives at an address of the heap, and a pointer to it   *)
(* holds the address; the elements of a slice live in the cells of its     *)
(* backing array, and the slice holds the cells' addresses.                *)
(***************************************************************************)
\* the address of the caller's Annotations object
CallerAnnotations == 1

\* &annotations: the pointer to the object at address addr
At(addr) == Ptr([at |-> addr])

\* values: the slice over the whole of the array
SliceOf(array) == [i \in 1..Len(array) |-> [at |-> i]]

MaxValues == 2

AliasValueInputs == UNION {[1..n -> {"v", "w"}] : n \in 1..MaxValues}

AnnotationOps ==
  {"NewTextContent", "NewImageContent", "NewResource", "NewResourceContent"}

\* a := &Annotations{...}; content := NewTextContent("Hello", a)
DoTextContentOfPointer ==
  /\ hOp = "init"
  /\ \E a \in AnnotationInputs \ {Nil} :
       /\ hHeap' = (CallerAnnotations :> a[1])
       /\ hBuilt' = a
  /\ hVal' = Ptr(NewTextContent("Hello", At(CallerAnnotations)))
  /\ hOp' = "NewTextContent"
  /\ UNCHANGED <<cvars, evars, bvars, vvars, svars>>

\* a := &Annotations{...}; content := NewImageContent("d", "image/png", a)
DoImageContentOfPointer ==
  /\ hOp = "init"
  /\ \E a \in AnnotationInputs \ {Nil} :
       /\ hHeap' = (CallerAnnotations :> a[1])
       /\ hBuilt' = a
  /\ hVal' = Ptr(NewImageContent("d", "image/png", At(CallerAnnotations)))
  /\ hOp' = "NewImageContent"
  /\ UNCHANGED <<cvars, evars, bvars, vvars, svars>>

\* a := &Annotations{...}; r, _ := NewResource(uri, name,
\*     WithResourceAnnotations(a))
DoResourceOfPointer ==
  /\ hOp = "init"
  /\ \E a \in AnnotationInputs \ {Nil} :
       /\ hHeap' = (CallerAnnotations :> a[1])
       /\ hBuilt' = a
  /\ hVal' = NewResource("file:///config.yaml", "Configuration",
               <<[opt |-> "WithResourceAnnotations",
                  a |-> At(CallerAnnotations)]>>).val
  /\ hOp' = "NewResource"
  /\ UNCHANGED <<cvars, evars, bvars, vvars, svars>>

\* a := &Annotations{...}; rc, _ := NewResourceContent(uri,
\*     WithContentText("Hello"), WithContentAnnotations(a))
DoResourceContentOfPointer ==
  /\ hOp = "init"
  /\ \E a \in AnnotationInputs \ {Nil} :
       /\ hHeap' = (CallerAnnotations :> a[1])
       /\ hBuilt' = a
  /\ hVal' = NewResourceContent("file:///config.yaml",
               <<[opt |-> "WithContentText", s |-> "Hello"],
                 [opt |-> "WithContentAnnotations",
                  a |-> At(CallerAnnotations)]>>).val
  /\ hOp' = "NewResourceContent"
  /\ UNCHANGED <<cvars, evars, bvars, vvars, svars>>

\* values := []string{...}; result, _ := NewCompleteResult(values)
DoCompleteResultOfSlice ==
  /\ hOp = "init"
  /\ \E values \in AliasValueInputs :
       /\ hHeap' = values
       /\ hBuilt' = values
       /\ hVal' = NewCompleteResult(SliceOf(values), <<>>).val
  /\ hOp' = "NewCompleteResult"
  /\ UNCHANGED <<cvars, evars, bvars, vvars, svars>>

\* a.Priority = p, by the caller, after the constructor returned
DoCallerSetsPriority ==
  /\ hOp \in AnnotationOps
  /\ \E p \in Opt(PriorityInputs) :
       hHeap' = [hHeap EXCEPT ![CallerAnnotations].Priority = p]
  /\ UNCHANGED <<hVal, hOp, hBuilt>>
  /\ UNCHANGED <<cvars, evars, bvars, vvars, svars>>

\* a.Audience = roles, by the caller, after the constructor returned
DoCallerSetsAudience ==
  /\ hOp \in AnnotationOps
  /\ \E roles \in AudienceInputs :
       hHeap' = [hHeap EXCEPT ![CallerAnnotations].Audience = roles]
  /\ UNCHANGED <<hVal, hOp, hBuilt>>
  /\ UNCHANGED <<cvars, evars, bvars, vvars, svars>>

\* values[i] = s, by the caller, after the constructor returned
DoCallerSetsValue ==
  /\ hOp = "NewCompleteResult"
  /\ \E i \in 1..Len(hHeap), s \in {"v", "w"} :
       hHeap' = [hHeap EXCEPT ![i] = s]
  /\ UNCHANGED <<hVal, hOp, hBuilt>>
  /\ UNCHANGED <<cvars, evars, bvars, vvars, svars>>

NextAlias ==
  \/ DoTextContentOfPointer
  \/ DoImageContentOfPointer
  \/ DoResourceOfPointer
  \/ DoResourceContentOfPointer
  \/ DoCompleteResultOfSlice
  \/ DoCallerSetsPriority
  \/ DoCallerSetsAudience
  \/ DoCallerSetsValue

SpecAlias == Init /\ [][NextAlias]_vars

(***************************************************************************)
(* The schema constructors                                                 *)
(***************************************************************************)
\* func NewStringEnum(values ...string) JSONSchema
NewStringEnum(values) ==
  [ZeroSchema EXCEPT !.Type = TypeString,
                     !.Enum = [i \in 1..Len(values) |-> GoString(values[i])]]

\* func NewNumberEnum(values ...float64) JSONSchema
NewNumberEnum(values) ==
  [ZeroSchema EXCEPT !.Type = TypeNumber,
                     !.Enum = [i \in 1..Len(values) |-> values[i]]]

\* func NewIntegerEnum(values ...int) JSONSchema
NewIntegerEnum(values) ==
  [ZeroSchema EXCEPT !.Type = TypeInteger,
                     !.Enum = [i \in 1..Len(values) |-> values[i]]]

\* func WithMinLength(min int) SchemaOption
WithMinLength(min, s) == [s EXCEPT !.MinLength = Ptr(min)]

\* func WithMaxLength(max int) SchemaOption
WithMaxLength(max, s) == [s EXCEPT !.MaxLength = Ptr(max)]

\* func WithPattern(pattern string) SchemaOption
WithPattern(pattern, s) == [s EXCEPT !.Pattern = Ptr(pattern)]

\* func WithNumberRange(min, max float64) SchemaOption
WithNumberRange(min, max, s) ==
  [s EXCEPT !.Minimum = Ptr(min), !.Maximum = Ptr(max)]

\* opt(&schema) for a SchemaOption made by one of the four functions
ApplySchemaOption(o, s) ==
  CASE o.opt = "WithMinLength" -> WithMinLength(o.n, s)
    [] o.opt = "WithMaxLength" -> WithMaxLength(o.n, s)
    [] o.opt = "WithPattern" -> WithPattern(o.s, s)
    [] o.opt = "WithNumberRange" -> WithNumberRange(o.min, o.max, s)

\* for _, opt := range opts { opt(&schema) }
RECURSIVE ApplySchemaOptions(_, _)
ApplySchemaOptions(schema, opts) ==
  IF opts = <<>> THEN schema
  ELSE ApplySchemaOptions(ApplySchemaOption(Head(opts), schema), Tail(opts))

\* func StringSchemaWithConstraints(opts ...SchemaOption) JSONSchema, with
\* the package variable StringSchema holding base: schema := StringSchema
\* copies the struct, the options write to the copy
StringSchemaWithConstraints(base, opts) == ApplySchemaOptions(base, opts)

\* func ArraySchema(items JSONSchema) JSONSchema
ArraySchema(items) ==
  [ZeroSchema EXCEPT !.Type = TypeArray, !.Items = Ptr(items)]

\* func ObjectSchema(properties map[string]JSONSchema) JSONSchema
ObjectSchema(properties) ==
  [ZeroSchema EXCEPT !.Type = TypeObject, !.Properties = properties]

(***************************************************************************)
(* Inputs and operations of the schema constructors                        *)
(***************************************************************************)
\* how many constructor calls one behaviour makes
MaxCalls == 3

\* how many options one StringSchemaWithConstraints call is given
MaxSchemaOpts == 2

SchemaOptions ==
  {[opt |-> "WithMinLength", n |-> 3], [opt |-> "WithMaxLength", n |-> 63],
   [opt |-> "WithPattern", s |-> "^[a-z0-9-]+$"],
   [opt |-> "WithNumberRange", min |-> Float(0), max |-> Float(1)]}

SchemaOptionSeqs ==
  UNION {[1..n -> SchemaOptions] : n \in 0..MaxSchemaOpts}

StringEnumInputs == {<<>>, <<"dev">>, <<"dev", "prod">>}

NumberEnumInputs == {<<>>, <<Rat(1, 2)>>, <<Rat(1, 2), Float(1)>>}

IntegerEnumInputs == {<<>>, <<1>>, <<1, 5>>}

\* the schemas a caller has at hand to nest: the four package variables and
\* the node the previous call returned
SchemasAtHand ==
  {StringSchema, NumberSchema, IntegerSchema, BooleanSchema}
  \cup {sNode[i] : i \in 1..Len(sNode)}

\* property maps over the names "name" and "tags"
PropertyMaps ==
  {EmptyMap}
  \cup {MapSet(EmptyMap, "name", x) : x \in SchemasAtHand}
  \cup {MapSet(MapSet(EmptyMap, "name", x), "tags", y) :
          x \in SchemasAtHand, y \in SchemasAtHand}

\* a constructor returned node; the package variables are not assigned
SchemaReturned(op, in, node) ==
  /\ sCalls < MaxCalls
  /\ sNode' = Ptr(node)
  /\ sOp' = op
  /\ sIn' = in
  /\ sCalls' = sCalls + 1
  /\ UNCHANGED <<StringSchema, NumberSchema, IntegerSchema, BooleanSchema>>
  /\ UNCHANGED <<cvars, evars, bvars, vvars, hvars>>

DoStringSchemaWithConstraints ==
  \E opts \in SchemaOptionSeqs :
    SchemaReturned("StringSchemaWithConstraints", opts,
                   StringSchemaWithConstraints(StringSchema, opts))

DoNewStringEnum ==
  \E values \in StringEnumInputs :
    SchemaReturned("NewStringEnum", values, NewStringEnum(values))

DoNewNumberEnum ==
  \E values \in NumberEnumInputs :
    SchemaReturned("NewNumberEnum", values, NewNumberEnum(values))

DoNewIntegerEnum ==
  \E values \in IntegerEnumInputs :
    SchemaReturned("NewIntegerEnum", values, NewIntegerEnum(values))

DoArraySchema ==
  \E items \in SchemasAtHand :
    SchemaReturned("ArraySchema", items, ArraySchema(items))

DoObjectSchema ==
  \E properties \in PropertyMaps :
    SchemaReturned("ObjectSchema", properties, ObjectSchema(properties))

NextSchema ==
  \/ DoStringSchemaWithConstraints
  \/ DoNewStringEnum
  \/ DoNewNumberEnum
  \/ DoNewIntegerEnum
  \/ DoArraySchema
  \/ DoObjectSchema

SpecSchema == Init /\ [][NextSchema]_vars

(***************************************************************************)
(* Properties of the Content codec                                         *)
(***************************************************************************)
KnownContentTypes == {ContentTypeText, ContentTypeImage, ContentTypeResource}

\* the variant pointer of v that the tag t names
VariantOf(v, t) ==
  CASE t = ContentTypeText -> v.TextContent
    [] t = ContentTypeImage -> v.ImageContent
    [] t = ContentTypeResource -> v.ResourceContent
    [] OTHER -> Nil

Populated(v) == {t \in KnownContentTypes : VariantOf(v, t) # Nil}

\* the Content the last decode was handed, seen from the state before it
TargetBefore == IF cFresh' THEN ZeroContent ELSE c

\* C1: round trip. Decoding the bytes MarshalJSON returned for a valid
\* Content (text, image or resource) into a fresh Content succeeds and
\* yields a value equal to the encoded one: same Type, same variant
\* fields, same annotations, no other variant populated.
C1_ContentRoundTrip ==
  (cOp = "UnmarshalJSON" /\ cFresh /\ cSrc # Nil)
    => (cErr = "" /\ c = cSrc[1])

C1_Witness ==
  /\ cOp = "UnmarshalJSON" /\ cFresh /\ cSrc # Nil
  /\ c = cSrc[1]
  /\ c.Type = ContentTypeText
  /\ c.TextContent[1].Annotations
       = Ptr([Audience |-> <<RoleAssistant>>, Priority |-> Ptr(Tenths(0))])

\* C2: after a successful UnmarshalJSON, whatever the target held before,
\* exactly one of TextContent, ImageContent, ResourceContent is non-nil
\* and it is the one Type names.
C2_ExactlyOneVariant ==
  (cOp = "UnmarshalJSON" /\ cErr = "") => Populated(c) = {c.Type}

\* C3: UnmarshalJSON of a wire object whose "type" is not one of text,
\* image, resource (a "type" that is missing or empty included) returns the
\* error "unknown content type" and populates no variant: the target is
\* left as it was. The wire writes each member once; its keys are read as
\* the decoder reads them, in any mix of cases.
C3_UnknownTypeRejected ==
  [][(/\ cOp' = "UnmarshalJSON"
      /\ cIn'.kind = "obj"
      /\ cIn'.plain
      /\ ~(cIn'.typ.k = "str" /\ cIn'.typ.s \in KnownContentTypes))
     => /\ cErr' = "unknown content type"
        /\ c' = TargetBefore]_vars

\* every member of ms is written under the name of one of the fields tags
KeysAmong(ms, tags) ==
  \A i \in 1..Len(ms) : \E tag \in tags : ms[i].key = Name[tag]

\* C4: the bytes MarshalJSON returns are one flat object: its first member
\* is "type" with the tag of the variant it encodes, the other members are
\* that variant's own fields at the top level, each once, carrying the
\* variant's values, and no member of another variant is present.
C4_FlatTaggedObject ==
  (cOp = "MarshalJSON" /\ cErr = "") =>
    LET out == cOut[1] IN
    /\ out.k = "obj"
    /\ Len(out.o) >= 2
    /\ out.o[1] = Member("type", JStr(c.Type))
    /\ c.Type \in Populated(c)
    /\ UniqueKeys(out)
    /\ c.Type = ContentTypeText =>
         /\ KeysAmong(out.o, {"type", "text", "annotations"})
         /\ Field(out, "text") = JStr(c.TextContent[1].Text)
         /\ AnnotationsVal(Field(out, "annotations"))
              = c.TextContent[1].Annotations
    /\ c.Type = ContentTypeImage =>
         /\ KeysAmong(out.o, {"type", "data", "mimeType", "annotations"})
         /\ Field(out, "data") = JStr(c.ImageContent[1].Data)
         /\ Field(out, "mimeType") = JStr(c.ImageContent[1].MimeType)
         /\ AnnotationsVal(Field(out, "annotations"))
              = c.ImageContent[1].Annotations
    /\ c.Type = ContentTypeResource =>
         /\ KeysAmong(out.o, {"type", "uri", "text", "blob", "mimeType",
                               "annotations"})
         /\ Field(out, "uri") = JStr(c.ResourceContent[1].URI)
         /\ StringPtrVal(Field(out, "text")) = c.ResourceContent[1].Text
         /\ StringPtrVal(Field(out, "blob")) = c.ResourceContent[1].Blob
         /\ StringPtrVal(Field(out, "mimeType"))
              = c.ResourceContent[1].MimeType
         /\ AnnotationsVal(Field(out, "annotations"))
              = c.ResourceContent[1].Annotations

\* the usage example of content.go, with the body "Hello"
C4_Witness ==
  /\ cOp = "MarshalJSON"
  /\ c = NewTextContent("Hello",
           Ptr([Audience |-> <<RoleAssistant>>,
                Priority |-> Ptr(Tenths(8))]))
  /\ cOut = Ptr(JObj(<<
       Member("type", JStr("text")),
       Member("text", JStr("Hello")),
       Member("annotations", JObj(<<
          Member("audience", JArr(<<JStr("assistant")>>)),
          Member("priority", JNum(8))>>))>>))

\* C5: MarshalJSON returns an error and no bytes when the variant pointer
\* that Type names is nil, or when Type is none of text, image, resource.
C5_MarshalFailsLoudly ==
  (cOp = "MarshalJSON" /\ c.Type \notin Populated(c))
    => (cErr # "" /\ cOut = Nil)

C5_Witness ==
  /\ cOp = "MarshalJSON"
  /\ c.Type = ContentTypeText
  /\ c.TextContent = Nil
  /\ cErr = "text content is nil"
  /\ cOut = Nil

\* C13: a Content of the resource variant that UnmarshalJSON accepted from
\* the wire holds exactly one of a text body and a blob: a resource object
\* carrying both, or neither, is rejected.
C13_ResourceExactlyOneBody ==
  (/\ cOp = "UnmarshalJSON"
   /\ cIn.typ = JStr(ContentTypeResource)
   /\ cErr = "")
    => /\ OneOfTextBlob(c.ResourceContent[1])
       /\ ("text" \in cIn.keys) # ("blob" \in cIn.keys)

\* C14: UnmarshalJSON of an object of type image fails when the member data
\* or the member mimeType is missing, and succeeds when both are present,
\* whatever strings they hold.
C14_ImagePresenceChecked ==
  (/\ cOp = "UnmarshalJSON"
   /\ cIn.kind = "obj"
   /\ cIn.typ = JStr(ContentTypeImage))
    => IF {"data", "mimeType"} \subseteq cIn.keys
       THEN cErr = "" ELSE cErr # ""

(***************************************************************************)
(* Properties of the ErrorInfo codec                                       *)
(***************************************************************************)
\* the wire, its data and the objects its data lists write each member
\* once
WirePlain(w) ==
  /\ UniqueKeys(w)
  /\ UniqueKeys(Field(w, "data"))
  /\ LET v == Field(Field(w, "data"), "validation") IN
       v.k = "arr" => \A i \in 1..Len(v.a) : UniqueKeys(v.a[i])

\* the last decoded wire is an object with this code and an object as
\* data, each member written once; keys are read as the decoder reads
\* them, in any case
WireHas(w, code) ==
  /\ w.k = "obj"
  /\ WirePlain(w)
  /\ Field(w, "code") = JNum(code)
  /\ Field(w, "data").k = "obj"

WireErrorType(w) == Field(Field(w, "data"), "errorType")

\* the validation member of the data is absent, null, or a list of
\* objects whose field and error, when present, are strings
WireValidationOk(w) ==
  LET v == Field(Field(w, "data"), "validation") IN
    \/ v.k \in {"missing", "null"}
    \/ /\ v.k = "arr"
       /\ \A i \in 1..Len(v.a) :
            /\ v.a[i].k = "obj"
            /\ Field(v.a[i], "field").k \in {"missing", "str"}
            /\ Field(v.a[i], "error").k \in {"missing", "str"}

\* the toolName and details of the data, when present, are strings
WireToolOk(w) ==
  /\ Field(Field(w, "data"), "toolName").k \in {"missing", "str"}
  /\ Field(Field(w, "data"), "details").k \in {"missing", "str"}

\* the (field, error) pairs the data of the wire lists, as the slice they
\* make: none without a list
WireFailures(w) ==
  LET v == Field(Field(w, "data"), "validation") IN
    IF v.k = "arr"
    THEN MakeSlice([i \in 1..Len(v.a) |->
                      [Field |-> StringVal(Field(v.a[i], "field")),
                       Error |-> StringVal(Field(v.a[i], "error"))]])
    ELSE NilSlice

\* the string member key of the data of the wire, "" when there is none
WireString(w, key) ==
  LET m == Field(Field(w, "data"), key) IN IF m.k = "str" THEN m.s ELSE ""

\* the ErrorInfo the last decode was handed, seen from the state before it
ETargetBefore == IF eFresh' THEN ZeroErrorInfo ELSE e

\* C6: round trip. UnmarshalJSON of the bytes MarshalJSON returned for an
\* ErrorInfo built by NewValidationError or NewToolExecutionError, with
\* any arguments, succeeds and yields the same Code, Message and Data.
C6_ErrorInfoRoundTrip ==
  (eOp = "UnmarshalJSON" /\ eSrc # Nil) => (eErr = "" /\ e = eSrc[1])

\* C7: UnmarshalJSON of an object with code -32602 whose data lists
\* (field, error) pairs yields a ValidationError holding exactly those
\* pairs; with code -32603 and the errorType toolExecution it yields a
\* ToolExecutionError holding exactly the toolName, errorType and details
\* of the data.
C7_StructuredDataDecoded ==
  eOp = "UnmarshalJSON" =>
    /\ (/\ WireHas(eIn, ErrInvalidParams)
        /\ WireErrorType(eIn) \in {JMissing, JStr("validation")}
        /\ WireValidationOk(eIn))
         => /\ eErr = ""
            /\ e.Data = Ptr(ValidationError(WireFailures(eIn)))
    /\ (/\ WireHas(eIn, ErrInternal)
        /\ WireErrorType(eIn) = JStr("toolExecution")
        /\ WireToolOk(eIn))
         => /\ eErr = ""
            /\ e.Data = Ptr(ToolExecutionError(WireString(eIn, "toolName"),
                              "toolExecution", WireString(eIn, "details")))

C7_Witness ==
  /\ eOp = "UnmarshalJSON"
  /\ WireHas(eIn, ErrInternal)
  /\ eSrc = Nil
  /\ eErr = ""
  /\ e.Data = Ptr(ToolExecutionError("searchCode", "toolExecution",
                    "Operation timed out after 30s"))

\* C8: UnmarshalJSON of an object whose code is neither -32602 nor -32603
\* and which carries a data object succeeds, sets Code and Message from
\* the wire and does not touch Data: a fresh target ends with Data nil.
C8_UnknownCodeLeavesData ==
  [][(/\ eOp' = "UnmarshalJSON"
      /\ \E code \in ErrorCodes \ {ErrInvalidParams, ErrInternal} :
           WireHas(eIn', code))
     => /\ eErr' = ""
        /\ Field(eIn', "code") = JNum(e'.Code)
        /\ Field(eIn', "message") = JStr(e'.Message)
        /\ e'.Data = ETargetBefore.Data
        /\ eFresh' => e'.Data = Nil]_vars

\* C9: UnmarshalJSON of an object with the code -32602 or
\* -32603 whose data carries an errorType naming no known variant fails
\* with "unknown error type".
C9_UnknownErrorTypeRejected ==
  (/\ eOp = "UnmarshalJSON"
   /\ WireHas(eIn, ErrInvalidParams) \/ WireHas(eIn, ErrInternal)
   /\ WireErrorType(eIn).k = "str"
   /\ WireErrorType(eIn).s \notin {"validation", "toolExecution"}
   /\ WireValidationOk(eIn))
    => eErr = "unknown error type"

\* C10 as claimed: UnmarshalJSON of an object with the code -32602 or
\* -32603 whose data object has no errorType succeeds and leaves Data
\* empty.
C10_NoErrorTypeLeavesData ==
  (/\ eOp = "UnmarshalJSON"
   /\ eFresh
   /\ WireHas(eIn, ErrInvalidParams) \/ WireHas(eIn, ErrInternal)
   /\ WireErrorType(eIn) = JMissing
   /\ WireValidationOk(eIn))
    => (eErr = "" /\ e.Data = Nil)

\* C10 as amended: without an errorType in the data, the code -32602
\* decodes successfully with Data a ValidationError holding the pairs the
\* data lists (none when it lists none), and the code -32603 fails with
\* "unknown error type", Data left as it was.
C10_NoErrorTypeByCode ==
  (/\ eOp = "UnmarshalJSON"
   /\ WireErrorType(eIn) = JMissing)
    => /\ (WireHas(eIn, ErrInvalidParams) /\ WireValidationOk(eIn))
            => /\ eErr = ""
               /\ e.Data = Ptr(ValidationError(WireFailures(eIn)))
       /\ WireHas(eIn, ErrInternal)
            => /\ eErr = "unknown error type"
               /\ eFresh => e.Data = Nil

C10_Witness ==
  /\ eOp = "UnmarshalJSON"
  /\ eFresh
  /\ eSrc = Nil
  /\ WireHas(eIn, ErrInvalidParams)
  /\ WireErrorType(eIn) = JMissing
  /\ eErr = ""
  /\ e.Data = Ptr(ValidationError(MakeSlice(
                <<[Field |-> "maxTokens", Error |-> "must be positive"]>>)))

\* C11: decoding an ErrorInfo is all-or-nothing. Whenever UnmarshalJSON
\* returns an error the target's Code, Message and Data are what they were
\* before the call; and a successful decode of an object without a data
\* member leaves no Data behind, also in a target that held one.
C11_ErrorDecodeAllOrNothing ==
  [][eOp' = "UnmarshalJSON" =>
       /\ eErr' # "" => e' = ETargetBefore
       /\ (eErr' = "" /\ eIn'.k = "obj" /\ Field(eIn', "data") = JMissing)
            => e'.Data = Nil]_vars

(***************************************************************************)
(* Properties of the constructors and validators                           *)
(***************************************************************************)
\* the positions of the options made by the function named name
OptionsAt(opts, name) == {i \in 1..Len(opts) : opts[i].opt = name}

\* an option of the caller's own that returns an error
FailingCustom(opts) ==
  \E i \in 1..Len(opts) : opts[i].opt = "custom" /\ opts[i].fails

\* C12: NewResourceContent(uri, opts...) fails when WithContentText and
\* WithContentBlob are both supplied, in either order, fails when neither
\* is supplied, fails on an empty uri, and succeeds on a non-empty uri when
\* exactly one of the two kinds is supplied, once or repeatedly (no other
\* option failing); every ResourceContent it returns has exactly one of
\* Text and Blob non-nil.
C12_ResourceContentExactlyOne ==
  bOp = "NewResourceContent" =>
    LET texts == OptionsAt(bIn.opts, "WithContentText")
        blobs == OptionsAt(bIn.opts, "WithContentBlob")
    IN /\ (texts # {} /\ blobs # {}) => (bVal = Nil /\ bErr # "")
       /\ (texts = {} /\ blobs = {}) => (bVal = Nil /\ bErr # "")
       /\ bIn.uri = "" => (bVal = Nil /\ bErr # "")
       /\ (/\ bIn.uri # ""
           /\ (texts = {}) # (blobs = {})
           /\ ~FailingCustom(bIn.opts))
            => /\ bVal # Nil
               /\ bErr = ""
               /\ bVal[1].URI = bIn.uri
               /\ (bVal[1].Text # Nil) = (texts # {})
       /\ bVal # Nil => OneOfTextBlob(bVal[1])

C12_Witness ==
  /\ bOp = "NewResourceContent"
  /\ bIn.opts = <<[opt |-> "WithContentBlob", s |-> "b"],
                  [opt |-> "WithContentText", s |-> "Hello"]>>
  /\ bVal = Nil
  /\ bErr = "applying content option: "
              \o "cannot set text when blob is already set"
  /\ bRan = 2

OptionConstructors ==
  {"NewProgressNotification", "NewCompleteRequest", "NewCompleteResult",
   "NewResource", "NewResourceTemplate", "NewResourceContent", "NewPrompt",
   "NewLoggingMessage", "NewSetLevelRequest", "NewServerCapabilities",
   "NewClientCapabilities", "NewInitializeRequest", "NewInitializeResult"}

\* an option that returns an error whatever value it is called on
FailsAlone(o) ==
  \/ o.opt = "custom" /\ o.fails
  \/ o.opt = "WithLogger" /\ o.s = ""
  \/ /\ o.opt \in {"WithServerExperimental", "WithClientExperimental"}
     /\ o.data = GoChan

\* the option at position i of the call at hand returns an error, provided
\* the options before it returned none
FailsAt(i) ==
  LET o == bIn.opts[i] IN
    \/ FailsAlone(o)
    \/ /\ o.opt \in {"WithPromptArgument", "WithClientCapabilities",
                     "WithServerCapabilities"}
       /\ \E j \in 1..Len(o.opts) : FailsAlone(o.opts[j])
    \/ o.opt = "WithResultTotal" /\ o.n < Len(bIn.values)
    \/ /\ o.opt = "WithProgressTotal"
       /\ RatLessEq(o.f, Float(0)) \/ RatLess(o.f, bIn.progress)
    \/ /\ o.opt = "WithContentText"
       /\ \E j \in 1..(i - 1) : bIn.opts[j].opt = "WithContentBlob"
    \/ /\ o.opt = "WithContentBlob"
       /\ \E j \in 1..(i - 1) : bIn.opts[j].opt = "WithContentText"

\* C15: all-or-nothing construction. For each constructor that takes
\* options: if an option of the supplied list returns an error, the
\* constructor returns nil together with an error and calls no option
\* after the failing one; a value is returned only without an error and
\* after every option was called.
C15_AllOrNothing ==
  bOp \in OptionConstructors =>
    /\ (bVal = Nil) = (bErr # "")
    /\ \A i \in 1..Len(bIn.opts) :
         FailsAt(i) => (bVal = Nil /\ bErr # "" /\ bRan <= i)
    /\ bRan < Len(bIn.opts) => (bVal = Nil /\ bErr # "")
    /\ bVal # Nil => bRan = Len(bIn.opts)

C15_Witness ==
  /\ bOp = "NewLoggingMessage"
  /\ bIn.level = LogLevelInfo
  /\ bIn.opts = <<[opt |-> "WithLogger", s |-> ""],
                  [opt |-> "WithLogger", s |-> "database"]>>
  /\ bVal = Nil
  /\ bErr = "applying logging message option: logger name cannot be empty"
  /\ bRan = 1

\* C16: every CompleteResult NewCompleteResult returns has at most 100
\* values and, when Total is set, Total >= len(Values). The constructor
\* fails with 101 values or more, succeeds with exactly 100, and fails when
\* a WithResultTotal(total) has total < len(values).
C16_CompleteResultBounds ==
  bOp = "NewCompleteResult" =>
    LET small == {i \in OptionsAt(bIn.opts, "WithResultTotal") :
                    bIn.opts[i].n < Len(bIn.values)}
    IN /\ bVal # Nil =>
            /\ bVal[1].Completion.Values = bIn.values
            /\ Len(bVal[1].Completion.Values) <= 100
            /\ bVal[1].Completion.Total # Nil =>
                 bVal[1].Completion.Total[1] >= Len(bVal[1].Completion.Values)
       /\ Len(bIn.values) >= 101 => (bVal = Nil /\ bErr # "")
       /\ (Len(bIn.values) <= 100 /\ small = {}) => (bVal # Nil /\ bErr = "")
       /\ small # {} => (bVal = Nil /\ bErr # "")

C16_Witness ==
  /\ bOp = "NewCompleteResult"
  /\ Len(bIn.values) = 100
  /\ bIn.opts = <<[opt |-> "WithResultTotal", n |-> 100],
                  [opt |-> "WithHasMore", b |-> TRUE]>>
  /\ bVal # Nil
  /\ bVal[1].Completion.Total = Ptr(100)
  /\ bVal[1].Completion.HasMore = Ptr(TRUE)

\* C17: every ProgressNotification NewProgressNotification returns has
\* Progress >= 0 and, when Total is set, Total >= Progress. The
\* constructor fails for a negative progress, and fails when a
\* WithProgressTotal(total) has total < progress.
C17_ProgressBounds ==
  /\ (bOp \in {"NewProgressNotification", "NewProgressWithItems"}
      /\ bVal # Nil)
       => /\ RatLessEq(Float(0), bVal[1].Params.Progress)
          /\ bVal[1].Params.Total # Nil =>
               RatLessEq(bVal[1].Params.Progress, bVal[1].Params.Total[1])
  /\ bOp = "NewProgressNotification" =>
       /\ bVal # Nil => bVal[1].Params.Progress = bIn.progress
       /\ RatLess(bIn.progress, Float(0))
            => (bVal = Nil /\ bErr = "progress cannot be negative")
       /\ (\E i \in OptionsAt(bIn.opts, "WithProgressTotal") :
             RatLess(bIn.opts[i].f, bIn.progress))
            => (bVal = Nil /\ bErr # "")

\* C18: NewProgressWithItems(token, completed, total) succeeds for every
\* total > 0 and 0 <= completed <= total, returning a notification whose
\* progress is the percentage 100*completed/total, and fails otherwise.
C18_ProgressWithItems ==
  bOp = "NewProgressWithItems" =>
    IF bIn.total > 0 /\ 0 <= bIn.completed /\ bIn.completed <= bIn.total
    THEN /\ bVal # Nil
         /\ bErr = ""
         /\ RatEq(bVal[1].Params.Progress,
                  Rat(100 * bIn.completed, bIn.total))
    ELSE bVal = Nil /\ bErr # ""

\* a float64 within [0, 1], both ends included
InUnitRange(x) == RatLessEq(Float(0), x) /\ RatLessEq(x, Float(1))

\* annotations within the rules: a priority, when set, within [0, 1] and
\* every role of the audience user or assistant
ValidAnnotations(a) ==
  \/ a = Nil
  \/ /\ a[1].Priority = Nil \/ InUnitRange(a[1].Priority[1])
     /\ \A i \in 1..Len(a[1].Audience) :
          a[1].Audience[i] \in {"user", "assistant"}

\* C19: Annotations.Validate accepts exactly the annotations whose
\* priority, when set, is within [0, 1], both ends included, and whose
\* audience holds only the roles user and assistant; nil annotations, an
\* unset priority and an empty audience are accepted.
C19_ValidateAnnotations ==
  bOp = "Annotations.Validate" =>
    /\ (bErr = "") = ValidAnnotations(bIn.a)
    /\ bIn.a = Nil => bErr = ""
    /\ (bIn.a # Nil /\ bIn.a[1].Priority = Nil /\ bIn.a[1].Audience = <<>>)
         => bErr = ""

\* the annotations a constructed value carries
AnnotationsOf(op, v) ==
  CASE op = "NewTextContent" -> v.TextContent[1].Annotations
    [] op = "NewImageContent" -> v.ImageContent[1].Annotations
    [] OTHER -> v.Annotations

\* C20: no constructor or option that takes annotations (NewTextContent,
\* NewImageContent, WithResourceAnnotations, WithTemplateAnnotations,
\* WithContentAnnotations) yields a value whose annotations carry a
\* priority outside [0, 1] or a role other than user and assistant.
C20_AnnotationsValidatedAtConstruction ==
  (/\ bOp \in {"NewTextContent", "NewImageContent", "NewResource",
               "NewResourceTemplate", "NewResourceContent"}
   /\ bVal # Nil)
    => ValidAnnotations(AnnotationsOf(bOp, bVal[1]))

\* a reference as the claim describes the ones accepted: a prompt with a
\* non-empty name and no URI, a resource with a non-empty URI and no name
WellFormedReference(ref) ==
  \/ /\ ref.Type = "ref/prompt"
     /\ ref.Name # Nil
     /\ ref.Name[1] # ""
     /\ ref.URI = Nil
  \/ /\ ref.Type = "ref/resource"
     /\ ref.URI # Nil
     /\ ref.URI[1] # ""
     /\ ref.Name = Nil

\* C21: NewCompleteRequest succeeds exactly when the reference is a prompt
\* reference with a non-empty name and no URI, or a resource reference
\* with a non-empty URI and no name, and the argument name is not empty (no
\* option of the caller failing); any other reference type fails, and an
\* empty argument name fails whatever the reference.  The request returned
\* carries the reference and the argument unchanged.
C21_ReferenceValidation ==
  bOp = "NewCompleteRequest" =>
    /\ ~FailingCustom(bIn.opts) =>
         ((bVal # Nil /\ bErr = "")
            = (WellFormedReference(bIn.ref) /\ bIn.argName # ""))
    /\ ~WellFormedReference(bIn.ref) => (bVal = Nil /\ bErr # "" /\ bRan = 0)
    /\ bIn.argName = "" => (bVal = Nil /\ bErr # "" /\ bRan = 0)
    /\ bVal # Nil =>
         /\ bVal[1].Params.Ref = bIn.ref
         /\ bVal[1].Params.Argument.Name = bIn.argName

\* a prompt reference that also sets a URI is refused
C21_Witness ==
  /\ bOp = "NewCompleteRequest"
  /\ bIn.ref = [Type |-> "ref/prompt", Name |-> Ptr("generateCode"),
                URI |-> Ptr("file:///configs")]
  /\ bIn.argName = "language"
  /\ bVal = Nil
  /\ bErr = "invalid reference: prompt reference should not have URI"

(***************************************************************************)
(* Properties of the validators of message.go                              *)
(***************************************************************************)
\* C22: two calls of a validator on the same value return the same error:
\* every call made on the value at hand returned what the first call
\* returned.
C22_Deterministic ==
  \A i \in 1..Len(vErrs) : vErrs[i] = vErrs[1]

\* a set priority in [0, 1], or none
PriorityInRange(q) == q = Nil \/ InUnitRange(q[1])

\* the value as the claim describes the ones accepted
ValidParams(p) ==
  /\ p.Messages # <<>>
  /\ p.MaxTokens > 0
  /\ p.Temperature # Nil => InUnitRange(p.Temperature[1])
  /\ p.IncludeContext # Nil =>
       p.IncludeContext[1] \in {"none", "thisServer", "allServers"}
  /\ p.ModelPreferences # Nil =>
       /\ PriorityInRange(p.ModelPreferences[1].CostPriority)
       /\ PriorityInRange(p.ModelPreferences[1].SpeedPriority)
       /\ PriorityInRange(p.ModelPreferences[1].IntelligencePriority)

\* C27: CreateMessageParams.Validate, called on an assembled value,
\* returns nil exactly when messages is not empty, maxTokens is positive,
\* a set temperature is in [0, 1], a set includeContext is one of none,
\* thisServer and allServers, and each set priority of the model
\* preferences is in [0, 1]; one violation is enough for an error, and
\* every call on the value agrees on that.
C27_ValidateParams ==
  vOp = "CreateMessageParams.Validate" =>
    \A i \in 1..Len(vErrs) : (vErrs[i] = "") = ValidParams(vIn)

(***************************************************************************)
(* Properties of what a constructed value shares with its caller           *)
(***************************************************************************)
\* what the value v returned by op shows, read through the heap: its
\* annotations, or its completion values
SeenThrough(op, v, heap) ==
  IF op = "NewCompleteResult"
  THEN [i \in 1..Len(v.Completion.Values) |->
          heap[v.Completion.Values[i].at]]
  ELSE IF AnnotationsOf(op, v) = Nil THEN Nil
  ELSE Ptr(heap[AnnotationsOf(op, v)[1].at])

\* C23: once NewTextContent, NewImageContent, WithResourceAnnotations,
\* WithContentAnnotations or NewCompleteResult has returned, the
\* annotations (the values) of the constructed value stay what the caller
\* passed, whatever the caller then writes to its Annotations object (to
\* its slice).
C23_NotAliased ==
  hOp # "init" => SeenThrough(hOp, hVal[1], hHeap) = hBuilt

\* a step that sets a description, handed the empty description
EmptyDescription(o) ==
  /\ o.opt \in {"WithResourceDescription", "WithTemplateDescription",
                "WithPromptDescription", "WithArgumentDescription"}
  /\ o.s = ""

\* a step handed an input the claim wants it to refuse: an empty
\* description, an empty logger name, or an argument one of whose own
\* steps is handed an empty description
StepInputRefused(o) ==
  \/ EmptyDescription(o)
  \/ o.opt = "WithLogger" /\ o.s = ""
  \/ /\ o.opt = "WithPromptArgument"
     /\ \E j \in 1..Len(o.opts) : EmptyDescription(o.opts[j])

\* C24: a constructor handed a step that sets an empty description
\* (WithResourceDescription, WithTemplateDescription, WithPromptDescription,
\* WithArgumentDescription) or an empty logger name (WithLogger) fails: the
\* step validates its own input.
C24_StepsValidate ==
  bOp \in OptionConstructors =>
    \A i \in 1..Len(bIn.opts) :
      StepInputRefused(bIn.opts[i]) => (bVal = Nil /\ bErr # "")

\* the levels of the enumeration, as the claim lists them
ClaimedLevels ==
  {"debug", "info", "notice", "warning", "error", "critical", "alert",
   "emergency"}

\* an option of the list returns an error
SomeOptionFails(opts) == \E i \in 1..Len(opts) : FailsAlone(opts[i])

\* C25: NewSetLevelRequest and NewLoggingMessage fail for every level that
\* is not one of debug, info, notice, warning, error, critical, alert,
\* emergency (the empty string included), NewLoggingMessage fails for nil
\* data, and otherwise both succeed (no option failing) with the level, and
\* the data whatever it is, stored unchanged.
C25_LoggingLevels ==
  /\ bOp = "NewSetLevelRequest" =>
       /\ bIn.level \notin ClaimedLevels => (bVal = Nil /\ bErr # "")
       /\ (bIn.level \in ClaimedLevels /\ ~SomeOptionFails(bIn.opts))
            => (bVal # Nil /\ bErr = "")
       /\ bVal # Nil => bVal[1].Params.Level = bIn.level
  /\ bOp = "NewLoggingMessage" =>
       /\ bIn.level \notin ClaimedLevels => (bVal = Nil /\ bErr # "")
       /\ bIn.data = GoNil => (bVal = Nil /\ bErr # "")
       /\ (/\ bIn.level \in ClaimedLevels
           /\ bIn.data # GoNil
           /\ ~SomeOptionFails(bIn.opts))
            => (bVal # Nil /\ bErr = "")
       /\ bVal # Nil =>
            /\ bVal[1].Params.Level = bIn.level
            /\ bVal[1].Params.Data = bIn.data

\* the empty level is refused
C25_Witness ==
  /\ bOp = "NewLoggingMessage"
  /\ bIn.level = ""
  /\ bIn.data = GoChan
  /\ bIn.opts = <<>>
  /\ bVal = Nil
  /\ bErr = "invalid logging level: "

\* the method literal the claim gives for the envelope a constructor
\* returns
ClaimedMethod(op) ==
  CASE op = "NewProgressNotification" -> "notifications/progress"
    [] op = "NewProgressWithItems" -> "notifications/progress"
    [] op = "NewCompleteRequest" -> "completion/complete"
    [] op = "NewSetLevelRequest" -> "logging/setLevel"
    [] op = "NewLoggingMessage" -> "notifications/message"
    [] op = "NewInitializeRequest" -> "initialize"
    [] op = "NewInitializedNotification" -> "notifications/initialized"

EnvelopeConstructors ==
  {"NewProgressNotification", "NewProgressWithItems", "NewCompleteRequest",
   "NewSetLevelRequest", "NewLoggingMessage", "NewInitializeRequest",
   "NewInitializedNotification"}

\* C26: every envelope a constructor returns carries its fixed method
\* literal, whatever options the constructor was given: no option changes
\* Method.
C26_MethodLiteral ==
  (bOp \in EnvelopeConstructors /\ bVal # Nil) =>
    bVal[1].Method = ClaimedMethod(bOp)

\* the position of the last option of opts made by the function named name
\* (0 when there is none)
LastAt(opts, name) ==
  IF OptionsAt(opts, name) = {} THEN 0
  ELSE CHOOSE i \in OptionsAt(opts, name) :
         \A j \in OptionsAt(opts, name) : j <= i

\* the experimental entries a list of options leaves: for each name, the
\* JSON text of the payload of the last option that names it
ExperimentalLeft(opts, with) ==
  [name \in {opts[i].s : i \in OptionsAt(opts, with)} |->
     JStr(opts[CHOOSE i \in OptionsAt(opts, with) :
                 /\ opts[i].s = name
                 /\ \A j \in OptionsAt(opts, with) :
                      opts[j].s = name => j <= i].data.s)]

\* C28: in NewServerCapabilities and NewClientCapabilities each feature is
\* set by its own options alone (the last of them deciding its flags), and
\* the experimental entries hold, for each name, the serialized payload of
\* the last option naming it; in NewInitializeRequest
\* (NewInitializeResult) the capabilities are the ones that the last
\* WithClientCapabilities (WithServerCapabilities) option makes on its
\* own, with nothing of an earlier one.
C28_CapabilitiesReplace ==
  /\ (bOp = "NewServerCapabilities" /\ bVal # Nil) =>
       /\ (bVal[1].Logging # Nil)
            = (OptionsAt(bIn.opts, "WithServerLogging") # {})
       /\ bVal[1].Tools =
            IF LastAt(bIn.opts, "WithServerTools") = 0 THEN Nil
            ELSE Ptr([ListChanged |->
                   Ptr(bIn.opts[LastAt(bIn.opts, "WithServerTools")].b)])
       /\ bVal[1].Prompts =
            IF LastAt(bIn.opts, "WithServerPrompts") = 0 THEN Nil
            ELSE Ptr([ListChanged |->
                   Ptr(bIn.opts[LastAt(bIn.opts, "WithServerPrompts")].b)])
       /\ bVal[1].Resources =
            IF LastAt(bIn.opts, "WithServerResources") = 0 THEN Nil
            ELSE Ptr([Subscribe |->
                   Ptr(bIn.opts[LastAt(bIn.opts, "WithServerResources")].b),
                      ListChanged |->
                   Ptr(bIn.opts[LastAt(bIn.opts, "WithServerResources")].b2)])
       /\ bVal[1].Experimental
            = ExperimentalLeft(bIn.opts, "WithServerExperimental")
  /\ (bOp = "NewClientCapabilities" /\ bVal # Nil) =>
       /\ (bVal[1].Sampling # Nil)
            = (OptionsAt(bIn.opts, "WithClientSampling") # {})
       /\ bVal[1].Roots =
            IF LastAt(bIn.opts, "WithClientRoots") = 0 THEN Nil
            ELSE Ptr([ListChanged |->
                   Ptr(bIn.opts[LastAt(bIn.opts, "WithClientRoots")].b)])
       /\ bVal[1].Experimental
            = ExperimentalLeft(bIn.opts, "WithClientExperimental")
  /\ (/\ bOp = "NewInitializeRequest"
      /\ bVal # Nil
      /\ LastAt(bIn.opts, "WithClientCapabilities") # 0) =>
       bVal[1].Params.Capabilities =
         NewClientCapabilities(
           bIn.opts[LastAt(bIn.opts, "WithClientCapabilities")].opts).val[1]
  /\ (/\ bOp = "NewInitializeResult"
      /\ bVal # Nil
      /\ LastAt(bIn.opts, "WithServerCapabilities") # 0) =>
       bVal[1].Capabilities =
         NewServerCapabilities(
           bIn.opts[LastAt(bIn.opts, "WithServerCapabilities")].opts).val[1]

\* roots declared by a first application are gone after a second one that
\* declares sampling only
C28_Witness ==
  /\ bOp = "NewInitializeRequest"
  /\ bIn.opts = <<[opt |-> "WithClientCapabilities",
                   opts |-> <<[opt |-> "WithClientRoots", b |-> TRUE]>>],
                  [opt |-> "WithClientCapabilities",
                   opts |-> <<[opt |-> "WithClientSampling"]>>]>>
  /\ bVal # Nil
  /\ bVal[1].Params.Capabilities.Roots = Nil
  /\ bVal[1].Params.Capabilities.Sampling = Ptr(SamplingCapability)

(***************************************************************************)
(* Properties of a failed Content decode                                   *)
(***************************************************************************)
\* C29: when Content.UnmarshalJSON returns an error (bytes that do not
\* parse, an unknown or absent type, or a variant body that does not
\* parse), the target's Type, TextContent, ImageContent and ResourceContent
\* are what they were before the call.
C29_FailedDecodeKeepsTarget ==
  [][(cOp' = "UnmarshalJSON" /\ cErr' # "") =>
       /\ c'.Type = c.Type
       /\ c'.TextContent = c.TextContent
       /\ c'.ImageContent = c.ImageContent
       /\ c'.ResourceContent = c.ResourceContent]_vars

\* a target holding an image was handed a text object whose body does not
\* parse, and still holds the image under its image tag
C29_Witness ==
  /\ cOp = "UnmarshalJSON"
  /\ cErr # ""
  /\ ~cFresh
  /\ cIn.typ = JStr(ContentTypeText)
  /\ c.Type = ContentTypeImage
  /\ c.ImageContent # Nil
  /\ c.TextContent = Nil

(***************************************************************************)
(* Properties of the schema constructors                                   *)
(***************************************************************************)
\* a node carries none of the fields named
NoLengths(n) == n.MinLength = Nil /\ n.MaxLength = Nil /\ n.Pattern = Nil

NoRange(n) == n.Minimum = Nil /\ n.Maximum = Nil

NoItems(n) == n.Items = Nil

NoProperties(n) == n.Properties = EmptyMap /\ n.Required = <<>>

\* a node, and every node nested in it through items and properties,
\* carries only the constraint fields of its own type
RECURSIVE TypeAppropriate(_)
TypeAppropriate(n) ==
  CASE n.Type = TypeString ->
         NoRange(n) /\ NoItems(n) /\ NoProperties(n)
    [] n.Type \in {TypeNumber, TypeInteger} ->
         NoLengths(n) /\ NoItems(n) /\ NoProperties(n)
    [] n.Type = TypeBoolean ->
         NoLengths(n) /\ NoRange(n) /\ NoItems(n) /\ NoProperties(n)
    [] n.Type = TypeArray ->
         /\ NoLengths(n) /\ NoRange(n) /\ NoProperties(n)
         /\ n.Items # Nil => TypeAppropriate(n.Items[1])
    [] n.Type = TypeObject ->
         /\ NoLengths(n) /\ NoRange(n) /\ NoItems(n)
         /\ \A name \in DOMAIN n.Properties :
              TypeAppropriate(n.Properties[name])
    [] OTHER -> FALSE

\* C30: after any sequence of schema constructor calls the four package
\* schemas carry their type tag and nothing else, and the node a call
\* returned carries only the constraint fields that match its type, at
\* every level of nesting (a string node has no minimum or maximum).
C30_SchemasTypeAppropriate ==
  /\ StringSchema = SchemaOfType(TypeString)
  /\ NumberSchema = SchemaOfType(TypeNumber)
  /\ IntegerSchema = SchemaOfType(TypeInteger)
  /\ BooleanSchema = SchemaOfType(TypeBoolean)
  /\ sNode # Nil => TypeAppropriate(sNode[1])

====
